---------------------------- MODULE Spec2Model ----------------------------
(***************************************************************************)
(* HybridStorage: the scope dispatcher of react-native-nitro-storage.      *)
(*                                                                         *)
(* The dispatcher routes each public operation to the in-memory map or to  *)
(* the native adapter (modelled by MockNativeAdapter of StorageTest.cpp,   *)
(* three std::map domains each behind its own mutex) and fans a change     *)
(* notification out to the listeners registered for the scope.             *)
(*                                                                         *)
(* Every thread runs a stack of frames: the bottom frame is the public     *)
(* call made by the host, a frame above it is a call made by a listener    *)
(* callback of the frame below.  A frame advances one lock acquisition,    *)
(* one map access or one callback invocation at a time, so that other      *)
(* threads interleave exactly where the code lets them.                    *)
(*                                                                         *)
(* A double scope selector d is represented by the integer 2*d (halves):   *)
(* 0, 2, 4 are Memory, Disk, Secure; 3 is 1.5; 6 is 3.0; -2 is -1.0.       *)
(* std::optional<std::string> is a sequence of length 0 or 1.              *)
(***************************************************************************)
EXTENDS Integers, Sequences, FiniteSets, TLC

\* enum class Scope
Memory == 0
Disk == 1
Secure == 2

kBatchMissingSentinel == "__nitro_storage_batch_missing__::v1"

\* Bound: addOnChange is offered while fewer than MaxListeners ids exist.
MaxListeners == 2
\* Bound: the same for the workload of SpecOrder.
MaxOrdered == 3
\* Bound: the same for the workload of SpecLive.
MaxLive == 1

nullopt == << >>
Some(v) == << v >>

\* The content of a std::string that a write has started and not finished.
Torn == "<partially written>"

Keys == {"a", "b"}
Domains == {"memory", "disk", "secure", "biometric"}
\* static_cast<int> of the selectors the callers below use
IntScopes == -1 .. 3

VARIABLES
    memoryStore_,      \* HybridStorage::memoryStore_
    memoryMutex_,      \* HybridStorage::memoryMutex_: 0 (free) or the holding thread
    nativeAdapter_,    \* HybridStorage::nativeAdapter_: TRUE iff non-null
    listeners_,        \* HybridStorage::listeners_: int scope -> vector<Listener>
    listenersMutex_,   \* HybridStorage::listenersMutex_
    nextListenerId_,   \* HybridStorage::nextListenerId_
    diskStore_,        \* MockNativeAdapter::diskStore_
    secureStore_,      \* MockNativeAdapter::secureStore_
    biometricStore_,   \* MockNativeAdapter::biometricStore_
    diskMutex_,        \* MockNativeAdapter::diskMutex_
    secureMutex_,      \* MockNativeAdapter::secureMutex_
    biometricMutex_,   \* MockNativeAdapter::biometricMutex_
    accessControlLevel_,  \* MockNativeAdapter::accessControlLevel_
    keychainGroup_,    \* MockNativeAdapter::keychainGroup_
    handles,           \* the unsubscribe closures handed out: handles[id+1] = captured intScope
    stack,             \* per thread: the frames of the calls in progress
    log,               \* per thread: the callback invocations of the public call in progress
    expected,          \* history: per domain, the map the calls so far were meant to produce
    unsubscribed,      \* history: the listener ids whose unsubscribe closure has run
    focus              \* the host's workload: the scope selector its calls concentrate on

configVars == << accessControlLevel_, keychainGroup_ >>
storeVars == << memoryStore_, diskStore_, secureStore_, biometricStore_, configVars >>
mutexVars == << memoryMutex_, diskMutex_, secureMutex_, biometricMutex_ >>
registryVars == << listeners_, listenersMutex_, nextListenerId_, handles, unsubscribed >>
\* what no operation ever changes
fixedVars == << nativeAdapter_, focus >>
vars == << memoryStore_, memoryMutex_, nativeAdapter_, listeners_, listenersMutex_,
           nextListenerId_, diskStore_, secureStore_, biometricStore_, diskMutex_,
           secureMutex_, biometricMutex_, accessControlLevel_, keychainGroup_, handles,
           stack, log, expected, unsubscribed, focus >>

Threads == {1, 2}

----------------------------------------------------------------------------
\* std::unordered_map / std::map<std::string, std::string>

EmptyMap == [k \in {} |-> ""]
Put(m, k, v) == [x \in (DOMAIN m) \cup {k} |-> IF x = k THEN v ELSE m[x]]
Erase(m, k) == [x \in (DOMAIN m) \ {k} |-> m[x]]
Find(m, k) == IF k \in DOMAIN m THEN Some(m[k]) ELSE nullopt

Store(d) ==
    CASE d = "memory" -> memoryStore_
      [] d = "disk" -> diskStore_
      [] d = "secure" -> secureStore_
      [] d = "biometric" -> biometricStore_

Mutex(d) ==
    CASE d = "memory" -> memoryMutex_
      [] d = "disk" -> diskMutex_
      [] d = "secure" -> secureMutex_
      [] d = "biometric" -> biometricMutex_

StoreBecomes(d, m) ==
    /\ memoryStore_' = IF d = "memory" THEN m ELSE memoryStore_
    /\ diskStore_' = IF d = "disk" THEN m ELSE diskStore_
    /\ secureStore_' = IF d = "secure" THEN m ELSE secureStore_
    /\ biometricStore_' = IF d = "biometric" THEN m ELSE biometricStore_
    /\ UNCHANGED configVars

MutexBecomes(d, h) ==
    /\ memoryMutex_' = IF d = "memory" THEN h ELSE memoryMutex_
    /\ diskMutex_' = IF d = "disk" THEN h ELSE diskMutex_
    /\ secureMutex_' = IF d = "secure" THEN h ELSE secureMutex_
    /\ biometricMutex_' = IF d = "biometric" THEN h ELSE biometricMutex_

----------------------------------------------------------------------------
\* Frames

Top(t) == stack[t][Len(stack[t])]
Depth(t) == Len(stack[t])
Replace(t, f) == stack' = [stack EXCEPT ![t] = [@ EXCEPT ![Len(@)] = f]]
Raise(f, e) == [f EXCEPT !.pc = "ret", !.err = e]

NoFail == [kind |-> "none", at |-> 0]
NoCallback == [kind |-> "noop", target |-> 0]

\* What a call finds when it starts.
Snapshot ==
    [memory |-> memoryStore_, disk |-> diskStore_, secure |-> secureStore_,
     biometric |-> biometricStore_, config |-> configVars, listeners |-> listeners_]

\* A call: the operation and its arguments.  fail says whether and where the
\* adapter throws during this call; cb is the callback given to addOnChange;
\* lid is the id captured by the unsubscribe closure that is called.
CallOf(op, keys, values, sel) ==
    [op |-> op, keys |-> keys, values |-> values, sel |-> sel,
     fail |-> NoFail, cb |-> NoCallback, lid |-> 0]

Frame(c, at) ==
    [op |-> c.op, keys |-> c.keys, values |-> c.values, sel |-> c.sel,
     fail |-> c.fail, cb |-> c.cb, lid |-> c.lid,
     pc |-> "enter", dom |-> "memory", kind |-> "none", wraps |-> {},
     i |-> 1, local |-> EmptyMap, opts |-> << >>, calls |-> 0,
     notes |-> << >>, nscope |-> 0, j |-> 1, copy |-> << >>, idx |-> 1,
     err |-> "", pre |-> Snapshot, at |-> at]

\* The domain a call is meant to act on (0 = Memory, 1 = Disk, 2 = Secure;
\* the biometric operations have their own domain).
Intended(f) ==
    IF f.op \in {"setSecureBiometric", "getSecureBiometric", "deleteSecureBiometric",
                 "hasSecureBiometric", "clearSecureBiometric"}
    THEN "biometric"
    ELSE IF f.op \in {"setSecureAccessControl", "setKeychainAccessGroup"} THEN "none"
    ELSE CASE f.sel = 0 -> "memory"
           [] f.sel = 2 -> "disk"
           [] f.sel = 4 -> "secure"
           [] OTHER -> "none"

----------------------------------------------------------------------------
\* HybridStorage::toScope, with scopeValue in halves

\* toScope that truncates instead of rejecting a selector with a fraction
toScope_truncating(scopeValue) ==
    IF scopeValue < 0 \/ scopeValue > 4
    THEN [throws |-> TRUE, value |-> 0]
    ELSE [throws |-> FALSE, value |-> scopeValue \div 2]

toScope(scopeValue) ==
    IF scopeValue < 0 \/ scopeValue > 4
    THEN [throws |-> TRUE, value |-> 0]
    ELSE LET intValue == scopeValue \div 2
         IN IF scopeValue # intValue * 2
            THEN [throws |-> TRUE, value |-> 0]
            ELSE [throws |-> FALSE, value |-> intValue]

\* static_cast<int>(double): truncation towards zero
StaticCastInt(scopeValue) ==
    IF scopeValue >= 0 THEN scopeValue \div 2 ELSE -((-scopeValue) \div 2)

\* HybridStorage::ensureAdapter throws iff the adapter pointer is null
ensureAdapter == ~nativeAdapter_

At(t, op, pc) == Depth(t) > 0 /\ Top(t).op = op /\ Top(t).pc = pc
Note(k, v) == [key |-> k, value |-> v]
AllExceptions == {"std", "other"}
\* An operation's first step changes its own frame only.
EnterOnly ==
    UNCHANGED << storeVars, mutexVars, registryVars, fixedVars, log, expected >>

\* a dispatcher that asks for the adapter before it looks at the scope
Route_adapterFirst(f, kind, notes, wraps) ==
    LET s == toScope(f.sel)
        go(d) == [f EXCEPT !.pc = "lock", !.dom = d, !.kind = kind, !.notes = notes,
                           !.nscope = s.value, !.wraps = wraps]
    IN  IF s.throws THEN Raise(f, "InvalidScope")
        ELSE IF ensureAdapter THEN Raise(f, "AdapterNotConfigured")
        ELSE IF s.value = Memory THEN go("memory")
        ELSE IF s.value = Disk THEN go("disk")
        ELSE go("secure")

\* The switch (s) of the routed operations: the Memory case takes memoryMutex_
\* and works on memoryStore_, the Disk and Secure cases call ensureAdapter and
\* then the adapter inside try/catch.  kind is what the branch does to the
\* store, notes the notifyListeners calls that follow the switch, wraps the
\* exceptions the catch clauses turn into the dispatcher's runtime_error.
Route(f, kind, notes, wraps) ==
    LET s == toScope(f.sel)
        go(d) == [f EXCEPT !.pc = "lock", !.dom = d, !.kind = kind, !.notes = notes,
                           !.nscope = s.value, !.wraps = wraps]
    IN  IF s.throws THEN Raise(f, "InvalidScope")
        ELSE IF s.value = Memory THEN go("memory")
        ELSE IF ensureAdapter THEN Raise(f, "AdapterNotConfigured")
        ELSE IF s.value = Disk THEN go("disk")
        ELSE go("secure")

\* biometric operations that keep their entries in the Secure domain
RouteBiometric_secureDomain(f, kind, notes, wraps) ==
    IF ensureAdapter THEN Raise(f, "AdapterNotConfigured")
    ELSE [f EXCEPT !.pc = "lock", !.dom = "secure", !.kind = kind, !.notes = notes,
                   !.nscope = Secure, !.wraps = wraps]

\* biometric operations that notify the Memory scope's listeners
RouteBiometric_memoryChannel(f, kind, notes, wraps) ==
    IF ensureAdapter THEN Raise(f, "AdapterNotConfigured")
    ELSE [f EXCEPT !.pc = "lock", !.dom = "biometric", !.kind = kind, !.notes = notes,
                   !.nscope = Memory, !.wraps = wraps]

\* The biometric operations: ensureAdapter, then the adapter's biometric domain.
RouteBiometric(f, kind, notes, wraps) ==
    IF ensureAdapter THEN Raise(f, "AdapterNotConfigured")
    ELSE [f EXCEPT !.pc = "lock", !.dom = "biometric", !.kind = kind, !.notes = notes,
                   !.nscope = Secure, !.wraps = wraps]

\* The configuration setters: ensureAdapter, then the adapter's setter, which
\* takes no mutex; no try/catch.
RouteConfig(f) ==
    IF ensureAdapter THEN Raise(f, "AdapterNotConfigured")
    ELSE [f EXCEPT !.pc = "body", !.dom = "config", !.kind = "config", !.calls = 1]

----------------------------------------------------------------------------
\* The public operations: validation, the switch on the scope, and the
\* notifications that follow it.

\* set that notifies without having stored the value
set_notifyOnly(t) ==
    /\ At(t, "set", "enter")
    /\ LET f == Top(t)
           r == Route(f, "write", << Note(f.keys[1], Some(f.values[1])) >>, AllExceptions)
       IN Replace(t, IF r.pc = "lock" THEN [r EXCEPT !.pc = "nlock"] ELSE r)
    /\ EnterOnly

set(t) ==
    /\ At(t, "set", "enter")
    /\ LET f == Top(t)
       IN Replace(t, Route(f, "write", << Note(f.keys[1], Some(f.values[1])) >>,
                           AllExceptions))
    /\ EnterOnly

get(t) ==
    /\ At(t, "get", "enter")
    /\ Replace(t, Route(Top(t), "read", << >>, AllExceptions))
    /\ EnterOnly

\* remove that forgets its notification
remove_silent(t) ==
    /\ At(t, "remove", "enter")
    /\ Replace(t, Route(Top(t), "erase", << >>, AllExceptions))
    /\ EnterOnly

remove(t) ==
    /\ At(t, "remove", "enter")
    /\ LET f == Top(t)
       IN Replace(t, Route(f, "erase", << Note(f.keys[1], nullopt) >>, AllExceptions))
    /\ EnterOnly

\* clear that notifies once per key it removes
clear_perKey(t) ==
    /\ At(t, "clear", "enter")
    /\ LET f == Top(t)
           held == Cardinality(DOMAIN Store(IF Intended(f) \in Domains THEN Intended(f)
                                            ELSE "memory"))
       IN Replace(t, Route(f, "clear", [n \in 1 .. held |-> Note("", nullopt)],
                           AllExceptions))
    /\ EnterOnly

clear(t) ==
    /\ At(t, "clear", "enter")
    /\ Replace(t, Route(Top(t), "clear", << Note("", nullopt) >>, AllExceptions))
    /\ EnterOnly

\* setBatch that, like the adapter's loop, stores the first min(#keys, #values) pairs
setBatch_truncating(t) ==
    /\ At(t, "setBatch", "enter")
    /\ LET f == Top(t)
           count == IF Len(f.keys) < Len(f.values) THEN Len(f.keys) ELSE Len(f.values)
           g == [f EXCEPT !.keys = SubSeq(f.keys, 1, count)]
       IN Replace(t, Route(g, "write",
                           [n \in 1 .. count |-> Note(g.keys[n], Some(g.values[n]))],
                           AllExceptions))
    /\ EnterOnly

setBatch(t) ==
    /\ At(t, "setBatch", "enter")
    /\ LET f == Top(t)
       IN Replace(t,
            IF Len(f.keys) # Len(f.values) THEN Raise(f, "InvalidArgument")
            ELSE Route(f, "write",
                       [n \in 1 .. Len(f.keys) |-> Note(f.keys[n], Some(f.values[n]))],
                       AllExceptions))
    /\ EnterOnly

getBatch(t) ==
    /\ At(t, "getBatch", "enter")
    /\ Replace(t, Route(Top(t), "read", << >>, AllExceptions))
    /\ EnterOnly

\* removeBatch that notifies in the order of the store (sorted by key), not of its input
removeBatch_storeOrder(t) ==
    /\ At(t, "removeBatch", "enter")
    /\ LET f == Top(t)
           idx == [n \in 1 .. Len(f.keys) |-> n]
           sorted == SelectSeq(idx, LAMBDA n : f.keys[n] = "a")
                        \o SelectSeq(idx, LAMBDA n : f.keys[n] # "a")
       IN Replace(t, Route(f, "erase",
                           [n \in 1 .. Len(f.keys) |-> Note(f.keys[sorted[n]], nullopt)],
                           AllExceptions))
    /\ EnterOnly

removeBatch(t) ==
    /\ At(t, "removeBatch", "enter")
    /\ LET f == Top(t)
       IN Replace(t, Route(f, "erase",
                           [n \in 1 .. Len(f.keys) |-> Note(f.keys[n], nullopt)],
                           AllExceptions))
    /\ EnterOnly

setSecureBiometric(t) ==
    /\ At(t, "setSecureBiometric", "enter")
    /\ LET f == Top(t)
       IN Replace(t, RouteBiometric(f, "write",
                                    << Note(f.keys[1], Some(f.values[1])) >>, {"std"}))
    /\ EnterOnly

deleteSecureBiometric(t) ==
    /\ At(t, "deleteSecureBiometric", "enter")
    /\ LET f == Top(t)
       IN Replace(t, RouteBiometric(f, "erase", << Note(f.keys[1], nullopt) >>, {"std"}))
    /\ EnterOnly

clearSecureBiometric(t) ==
    /\ At(t, "clearSecureBiometric", "enter")
    /\ Replace(t, RouteBiometric(Top(t), "clear", << Note("", nullopt) >>, {"std"}))
    /\ EnterOnly

\* has, getAllKeys and size call the adapter outside any try/catch.
has(t) ==
    /\ At(t, "has", "enter")
    /\ Replace(t, Route(Top(t), "count", << >>, {}))
    /\ EnterOnly

getAllKeys(t) ==
    /\ At(t, "getAllKeys", "enter")
    /\ Replace(t, Route(Top(t), "keys", << >>, {}))
    /\ EnterOnly

size(t) ==
    /\ At(t, "size", "enter")
    /\ Replace(t, Route(Top(t), "size", << >>, {}))
    /\ EnterOnly

getSecureBiometric(t) ==
    /\ At(t, "getSecureBiometric", "enter")
    /\ Replace(t, RouteBiometric(Top(t), "read", << >>, {"std"}))
    /\ EnterOnly

hasSecureBiometric(t) ==
    /\ At(t, "hasSecureBiometric", "enter")
    /\ Replace(t, RouteBiometric(Top(t), "count", << >>, {}))
    /\ EnterOnly

\* level arrives as a double (here in halves) and is passed on as an int
setSecureAccessControl(t) ==
    /\ At(t, "setSecureAccessControl", "enter")
    /\ Replace(t, RouteConfig(Top(t)))
    /\ EnterOnly

setKeychainAccessGroup(t) ==
    /\ At(t, "setKeychainAccessGroup", "enter")
    /\ Replace(t, RouteConfig(Top(t)))
    /\ EnterOnly

\* results that leave the missing keys out
getBatchResults_skipsMissing(opts) ==
    LET present == SelectSeq(opts, LAMBDA o : o # nullopt)
    IN [n \in 1 .. Len(present) |-> present[n][1]]

\* getBatch's results: a missing key becomes the sentinel string
getBatchResults(opts) ==
    [n \in 1 .. Len(opts) |-> IF opts[n] = nullopt THEN kBatchMissingSentinel
                              ELSE opts[n][1]]

----------------------------------------------------------------------------
\* The map accesses, under the domain's mutex (std::lock_guard): memoryMutex_
\* in the dispatcher's Memory branches, the adapter's own mutex in each of
\* MockNativeAdapter's methods.

\* How many elements the body of the critical section works through.
Steps(f) == IF f.kind \in {"write", "erase", "read"} THEN Len(f.keys) ELSE 1
\* The adapter throws at this point of the call.
Failing(f) == f.dom # "memory" /\ f.fail.kind # "none" /\ f.i = f.fail.at
InBody(t) == Depth(t) > 0 /\ Top(t).pc = "body" /\ ~Failing(Top(t))

\* History: the map that the first n elements of call f are meant to make of m.
RECURSIVE Effect(_, _, _)
Effect(f, n, m) ==
    IF n = 0 THEN m
    ELSE IF f.op \in {"set", "setBatch", "setSecureBiometric"}
         THEN Put(Effect(f, n - 1, m), f.keys[n], f.values[n])
    ELSE IF f.op \in {"remove", "removeBatch", "deleteSecureBiometric"}
         THEN Erase(Effect(f, n - 1, m), f.keys[n])
    ELSE IF f.op \in {"clear", "clearSecureBiometric"} THEN EmptyMap
    ELSE m
\* The call has had its effect up to element n when it leaves the critical section.
ExpectedAfter(f, n) ==
    IF Intended(f) \in Domains
    THEN expected' = [expected EXCEPT ![Intended(f)] = Effect(f, n, @)]
    ELSE UNCHANGED expected
IntendedSteps(f) == IF f.op \in {"clear", "clearSecureBiometric"} THEN 1 ELSE Len(f.keys)

\* a critical section that is entered without waiting for the mutex
Lock_noWait(t) ==
    /\ Depth(t) > 0 /\ Top(t).pc = "lock"
    /\ MutexBecomes(Top(t).dom, t)
    /\ Replace(t, [Top(t) EXCEPT !.pc = "body",
                                 !.calls = IF Top(t).dom = "memory" THEN @ ELSE @ + 1])
    /\ UNCHANGED << storeVars, registryVars, fixedVars, log, expected >>

\* std::lock_guard<std::mutex> lock(...): blocks while another thread holds it
Lock(t) ==
    /\ Depth(t) > 0 /\ Top(t).pc = "lock"
    /\ Mutex(Top(t).dom) = 0
    /\ MutexBecomes(Top(t).dom, t)
    /\ Replace(t, [Top(t) EXCEPT !.pc = "body",
                                 !.calls = IF Top(t).dom = "memory" THEN @ ELSE @ + 1])
    /\ UNCHANGED << storeVars, registryVars, fixedVars, log, expected >>

\* a lock_guard that lives until the operation returns: the notification runs under it
Unlock_heldToReturn(t) ==
    /\ InBody(t) /\ Top(t).i > Steps(Top(t))
    /\ UNCHANGED mutexVars
    /\ Replace(t, [Top(t) EXCEPT !.pc = IF Top(t).notes # << >> THEN "nlock" ELSE "ret"])
    /\ ExpectedAfter(Top(t), IntendedSteps(Top(t)))
    /\ UNCHANGED << storeVars, registryVars, fixedVars, log >>

\* the end of the guarded block: the lock_guard releases the mutex
Unlock(t) ==
    /\ InBody(t) /\ Top(t).i > Steps(Top(t))
    /\ MutexBecomes(Top(t).dom, 0)
    /\ Replace(t, [Top(t) EXCEPT !.pc = IF Top(t).notes # << >> THEN "nlock" ELSE "ret"])
    /\ ExpectedAfter(Top(t), IntendedSteps(Top(t)))
    /\ UNCHANGED << storeVars, registryVars, fixedVars, log >>

\* store[key] = value, first half: the entry exists, its string is not yet whole
WriteBegin(t) ==
    /\ InBody(t) /\ Top(t).kind = "write" /\ Top(t).i <= Steps(Top(t))
    /\ LET f == Top(t)
       IN /\ StoreBecomes(f.dom, Put(Store(f.dom), f.keys[f.i], Torn))
          /\ Replace(t, [f EXCEPT !.pc = "commit", !.local = Store(f.dom)])
    /\ UNCHANGED << mutexVars, registryVars, fixedVars, log, expected >>

\* a batch whose lock_guard is taken inside the loop, once per key
WriteCommit_perKeyLock(t) ==
    /\ Depth(t) > 0 /\ Top(t).pc = "commit"
    /\ LET f == Top(t)
       IN /\ StoreBecomes(f.dom, Put(f.local, f.keys[f.i], f.values[f.i]))
          /\ MutexBecomes(f.dom, IF f.i < Steps(f) THEN 0 ELSE t)
          /\ Replace(t, [f EXCEPT !.pc = IF f.i < Steps(f) THEN "lock" ELSE "body",
                                  !.i = f.i + 1, !.local = EmptyMap])
    /\ UNCHANGED << registryVars, fixedVars, log, expected >>

\* store[key] = value, second half
WriteCommit(t) ==
    /\ Depth(t) > 0 /\ Top(t).pc = "commit"
    /\ LET f == Top(t)
       IN /\ StoreBecomes(f.dom, Put(f.local, f.keys[f.i], f.values[f.i]))
          /\ Replace(t, [f EXCEPT !.pc = "body", !.i = f.i + 1, !.local = EmptyMap])
    /\ UNCHANGED << mutexVars, registryVars, fixedVars, log, expected >>

\* an erase that leaves the entry in place
EraseKey_keepsEntry(t) ==
    /\ InBody(t) /\ Top(t).kind = "erase" /\ Top(t).i <= Steps(Top(t))
    /\ Replace(t, [Top(t) EXCEPT !.i = Top(t).i + 1])
    /\ UNCHANGED << storeVars, mutexVars, registryVars, fixedVars, log, expected >>

\* an erase that removes the key name from every scope's map
EraseKey_everyScope(t) ==
    /\ InBody(t) /\ Top(t).kind = "erase" /\ Top(t).i <= Steps(Top(t))
    /\ LET f == Top(t)
       IN /\ memoryStore_' = Erase(memoryStore_, f.keys[f.i])
          /\ diskStore_' = Erase(diskStore_, f.keys[f.i])
          /\ secureStore_' = Erase(secureStore_, f.keys[f.i])
          /\ Replace(t, [f EXCEPT !.i = f.i + 1])
    /\ UNCHANGED << biometricStore_, configVars, mutexVars, registryVars, fixedVars,
                    log, expected >>

\* store.erase(key)
EraseKey(t) ==
    /\ InBody(t) /\ Top(t).kind = "erase" /\ Top(t).i <= Steps(Top(t))
    /\ LET f == Top(t)
       IN /\ StoreBecomes(f.dom, Erase(Store(f.dom), f.keys[f.i]))
          /\ Replace(t, [f EXCEPT !.i = f.i + 1])
    /\ UNCHANGED << mutexVars, registryVars, fixedVars, log, expected >>

\* store.clear()
ClearStore(t) ==
    /\ InBody(t) /\ Top(t).kind = "clear" /\ Top(t).i <= Steps(Top(t))
    /\ LET f == Top(t)
       IN /\ StoreBecomes(f.dom, EmptyMap)
          /\ Replace(t, [f EXCEPT !.i = f.i + 1])
    /\ UNCHANGED << mutexVars, registryVars, fixedVars, log, expected >>

\* store.find(key): the value, or nullopt
ReadKey(t) ==
    /\ InBody(t) /\ Top(t).kind = "read" /\ Top(t).i <= Steps(Top(t))
    /\ LET f == Top(t)
       IN Replace(t, [f EXCEPT !.i = f.i + 1,
                               !.opts = Append(f.opts, Find(Store(f.dom), f.keys[f.i]))])
    /\ UNCHANGED << storeVars, mutexVars, registryVars, fixedVars, log, expected >>

\* an existence check that always looks into the Memory map
CountKey_memoryOnly(t) ==
    /\ InBody(t) /\ Top(t).kind = "count" /\ Top(t).i <= Steps(Top(t))
    /\ LET f == Top(t)
       IN Replace(t, [f EXCEPT !.i = f.i + 1,
                               !.opts = << f.keys[1] \in DOMAIN memoryStore_ >>])
    /\ UNCHANGED << storeVars, mutexVars, registryVars, fixedVars, log, expected >>

\* store.find(key) != store.end() / store.count(key) > 0
CountKey(t) ==
    /\ InBody(t) /\ Top(t).kind = "count" /\ Top(t).i <= Steps(Top(t))
    /\ LET f == Top(t)
       IN Replace(t, [f EXCEPT !.i = f.i + 1,
                               !.opts = << f.keys[1] \in DOMAIN Store(f.dom) >>])
    /\ UNCHANGED << storeVars, mutexVars, registryVars, fixedVars, log, expected >>

\* The orders in which the keys of an unordered_map may be iterated.
Orders(S) ==
    {q \in [1 .. Cardinality(S) -> S] :
        \A m, n \in 1 .. Cardinality(S) : m # n => q[m] # q[n]}
\* The order in which a std::map is iterated.
KeyOrder == << "a", "b" >>
SortedKeys(m) == SelectSeq(KeyOrder, LAMBDA k : k \in DOMAIN m)

\* for (pair : store) keys.push_back(pair.first)
ListKeys(t) ==
    /\ InBody(t) /\ Top(t).kind = "keys" /\ Top(t).i <= Steps(Top(t))
    /\ LET f == Top(t)
       IN \E ks \in (IF f.dom = "memory" THEN Orders(DOMAIN memoryStore_)
                      ELSE {SortedKeys(Store(f.dom))}) :
            Replace(t, [f EXCEPT !.i = f.i + 1, !.opts = << ks >>])
    /\ UNCHANGED << storeVars, mutexVars, registryVars, fixedVars, log, expected >>

\* store.size()
SizeOf(t) ==
    /\ InBody(t) /\ Top(t).kind = "size" /\ Top(t).i <= Steps(Top(t))
    /\ LET f == Top(t)
       IN Replace(t, [f EXCEPT !.i = f.i + 1,
                               !.opts = << Cardinality(DOMAIN Store(f.dom)) >>])
    /\ UNCHANGED << storeVars, mutexVars, registryVars, fixedVars, log, expected >>

\* a setter that also drops the Secure entries stored under the old setting
Configure_clearsSecure(t) ==
    /\ InBody(t) /\ Top(t).kind = "config"
    /\ LET f == Top(t)
       IN /\ accessControlLevel_' = IF f.op = "setSecureAccessControl"
                                     THEN StaticCastInt(f.sel) ELSE accessControlLevel_
          /\ keychainGroup_' = IF f.op = "setKeychainAccessGroup"
                                THEN f.values[1] ELSE keychainGroup_
          /\ secureStore_' = EmptyMap
          /\ Replace(t, [f EXCEPT !.pc = "ret", !.i = f.i + 1])
    /\ UNCHANGED << memoryStore_, diskStore_, biometricStore_,
                    mutexVars, registryVars, fixedVars, log, expected >>

\* accessControlLevel_ = level / keychainGroup_ = group, and the setter returns
Configure(t) ==
    /\ InBody(t) /\ Top(t).kind = "config"
    /\ LET f == Top(t)
       IN /\ accessControlLevel_' = IF f.op = "setSecureAccessControl"
                                     THEN StaticCastInt(f.sel) ELSE accessControlLevel_
          /\ keychainGroup_' = IF f.op = "setKeychainAccessGroup"
                                THEN f.values[1] ELSE keychainGroup_
          /\ Replace(t, [f EXCEPT !.pc = "ret", !.i = f.i + 1])
    /\ UNCHANGED << memoryStore_, diskStore_, secureStore_, biometricStore_,
                    mutexVars, registryVars, fixedVars, log, expected >>

\* a catch clause that swallows the failure: the operation goes on to notify
AdapterThrows_swallowed(t) ==
    /\ Depth(t) > 0 /\ Top(t).pc = "body" /\ Failing(Top(t))
    /\ LET f == Top(t)
       IN /\ MutexBecomes(f.dom, 0)
          /\ Replace(t, [f EXCEPT !.pc = IF f.notes # << >> THEN "nlock" ELSE "ret"])
          /\ ExpectedAfter(f, f.fail.at - 1)
    /\ UNCHANGED << storeVars, registryVars, fixedVars, log >>

\* a catch clause that answers a failed read with "no value" for every key
AdapterThrows_absent(t) ==
    /\ Depth(t) > 0 /\ Top(t).pc = "body" /\ Failing(Top(t))
    /\ LET f == Top(t)
       IN /\ MutexBecomes(f.dom, 0)
          /\ Replace(t, IF f.kind = "read"
                         THEN [f EXCEPT !.pc = "ret",
                                        !.opts = [n \in 1 .. Len(f.keys) |-> nullopt]]
                         ELSE Raise(f, IF f.fail.kind \in f.wraps
                                       THEN "AdapterOperationFailed" ELSE "AdapterError"))
          /\ ExpectedAfter(f, f.fail.at - 1)
    /\ UNCHANGED << storeVars, registryVars, fixedVars, log >>

\* The adapter call throws: the adapter's lock_guard unwinds, and the
\* dispatcher's catch clauses (where the operation has them) rethrow.
AdapterThrows(t) ==
    /\ Depth(t) > 0 /\ Top(t).pc = "body" /\ Failing(Top(t))
    /\ LET f == Top(t)
       IN /\ MutexBecomes(f.dom, 0)
          /\ Replace(t, Raise(f, IF f.fail.kind \in f.wraps THEN "AdapterOperationFailed"
                                 ELSE "AdapterError"))
          /\ ExpectedAfter(f, f.fail.at - 1)
    /\ UNCHANGED << storeVars, registryVars, fixedVars, log >>

----------------------------------------------------------------------------
\* Listeners

\* addOnChange calls that have not yet taken their id
PendingAdds ==
    Cardinality({p \in UNION {{t} \X (1 .. Len(stack[t])) : t \in Threads} :
                    /\ stack[p[1]][p[2]].op = "addOnChange"
                    /\ stack[p[1]][p[2]].pc # "ret"})

\* A callback that mutates is running its mutation (such a callback guards
\* itself against re-entry, so it mutates once per notification it did not
\* cause itself).
MutatingInCallback ==
    \E t \in Threads : \E n \in 2 .. Len(stack[t]) : stack[t][n].op \in {"set", "remove"}

\* What a registered callback does with (key, value) of a notification for
\* scope: nothing, get(key, scope), a call of the unsubscribe closure of
\* listener cb.target (a no-op while that closure does not exist yet),
\* addOnChange(scope, a callback that does nothing) while fewer than
\* MaxListeners ids exist, or a mutation of the key in the scope it is
\* notified about: set(key, "2", scope) or remove(key, scope).  A callback of
\* kind "throw" throws at once: notifyListeners' catch (...) swallows the
\* exception and the loop goes on with the next listener.
CallsBack(cb) ==
    \/ cb.kind = "get"
    \/ cb.kind = "unsub" /\ cb.target < Len(handles)
    \/ cb.kind = "add" /\ nextListenerId_ + PendingAdds < MaxListeners
    \/ cb.kind \in {"set", "remove"} /\ ~MutatingInCallback
CallbackCall(cb, scope, key) ==
    IF cb.kind = "get" THEN CallOf("get", << key >>, << >>, 2 * scope)
    ELSE IF cb.kind = "add" THEN CallOf("addOnChange", << >>, << >>, 2 * scope)
    ELSE IF cb.kind = "set" THEN CallOf("set", << key >>, << "2" >>, 2 * scope)
    ELSE IF cb.kind = "remove" THEN CallOf("remove", << key >>, << >>, 2 * scope)
    ELSE [CallOf("unsubscribe", << >>, << >>, 0) EXCEPT !.lid = cb.target]

\* scopeListeners.erase(it, scopeListeners.end()): the listener and all after it
EraseListener_toEnd(scopeListeners, listenerId) ==
    LET hits == {n \in 1 .. Len(scopeListeners) : scopeListeners[n].id = listenerId}
    IN  IF hits = {} THEN scopeListeners
        ELSE LET m == CHOOSE n \in hits : \A o \in hits : n <= o
             IN SubSeq(scopeListeners, 1, m - 1)

\* an erase that moves the last listener into the place of the erased one
EraseListener_swapPop(scopeListeners, listenerId) ==
    LET hits == {n \in 1 .. Len(scopeListeners) : scopeListeners[n].id = listenerId}
        last == Len(scopeListeners)
    IN  IF hits = {} THEN scopeListeners
        ELSE LET m == CHOOSE n \in hits : \A o \in hits : n <= o
             IN SubSeq([scopeListeners EXCEPT ![m] = scopeListeners[last]], 1, last - 1)

\* scopeListeners.erase(it) of the first listener with the id, then break
EraseListener(scopeListeners, listenerId) ==
    LET hits == {n \in 1 .. Len(scopeListeners) : scopeListeners[n].id = listenerId}
    IN  IF hits = {} THEN scopeListeners
        ELSE LET m == CHOOSE n \in hits : \A o \in hits : n <= o
             IN SubSeq(scopeListeners, 1, m - 1)
                    \o SubSeq(scopeListeners, m + 1, Len(scopeListeners))

\* addOnChange that numbers a listener by its place in the scope's vector
addOnChange_sizeAsId(t) ==
    /\ Depth(t) > 0 /\ Top(t).op = "addOnChange"
    /\ LET f == Top(t)
           intScope == StaticCastInt(f.sel)
           listenerId == Len(listeners_[intScope])
       IN \/ /\ f.pc = "enter" /\ listenersMutex_ = 0
             /\ listenersMutex_' = t
             /\ Replace(t, [f EXCEPT !.pc = "rbody"])
             /\ UNCHANGED << listeners_, nextListenerId_, handles >>
          \/ /\ f.pc = "rbody"
             /\ nextListenerId_' = nextListenerId_ + 1
             /\ listeners_' = [listeners_ EXCEPT ![intScope] =
                                  Append(@, [id |-> listenerId, callback |-> f.cb])]
             /\ listenersMutex_' = 0
             /\ handles' = Append(handles, intScope)
             /\ Replace(t, [f EXCEPT !.pc = "ret", !.lid = listenerId])
    /\ UNCHANGED << storeVars, mutexVars, fixedVars, log, expected, unsubscribed >>

\* addOnChange that keeps the listeners of all scopes in one vector
addOnChange_oneList(t) ==
    /\ Depth(t) > 0 /\ Top(t).op = "addOnChange"
    /\ LET f == Top(t)
           intScope == StaticCastInt(f.sel)
           listenerId == nextListenerId_
       IN \/ /\ f.pc = "enter" /\ listenersMutex_ = 0
             /\ listenersMutex_' = t
             /\ Replace(t, [f EXCEPT !.pc = "rbody"])
             /\ UNCHANGED << listeners_, nextListenerId_, handles >>
          \/ /\ f.pc = "rbody"
             /\ nextListenerId_' = nextListenerId_ + 1
             /\ listeners_' = [s \in IntScopes |->
                                  Append(listeners_[s], [id |-> listenerId,
                                                         callback |-> f.cb])]
             /\ listenersMutex_' = 0
             /\ handles' = Append(handles, intScope)
             /\ Replace(t, [f EXCEPT !.pc = "ret", !.lid = listenerId])
    /\ UNCHANGED << storeVars, mutexVars, fixedVars, log, expected, unsubscribed >>

\* HybridStorage::addOnChange up to the return of the closure
addOnChange(t) ==
    /\ Depth(t) > 0 /\ Top(t).op = "addOnChange"
    /\ LET f == Top(t)
           intScope == StaticCastInt(f.sel)
           listenerId == nextListenerId_
       IN \/ /\ f.pc = "enter" /\ listenersMutex_ = 0
             /\ listenersMutex_' = t
             /\ Replace(t, [f EXCEPT !.pc = "rbody"])
             /\ UNCHANGED << listeners_, nextListenerId_, handles >>
          \/ /\ f.pc = "rbody"
             /\ nextListenerId_' = nextListenerId_ + 1
             /\ listeners_' = [listeners_ EXCEPT ![intScope] =
                                  Append(@, [id |-> listenerId, callback |-> f.cb])]
             /\ listenersMutex_' = 0
             /\ handles' = Append(handles, intScope)
             /\ Replace(t, [f EXCEPT !.pc = "ret", !.lid = listenerId])
    /\ UNCHANGED << storeVars, mutexVars, fixedVars, log, expected, unsubscribed >>

\* the closure returned by addOnChange, which captured (intScope, listenerId)
unsubscribe(t) ==
    /\ Depth(t) > 0 /\ Top(t).op = "unsubscribe"
    /\ LET f == Top(t)
           intScope == handles[f.lid + 1]
       IN \/ /\ f.pc = "enter" /\ listenersMutex_ = 0
             /\ listenersMutex_' = t
             /\ Replace(t, [f EXCEPT !.pc = "rbody"])
             /\ UNCHANGED << listeners_, unsubscribed >>
          \/ /\ f.pc = "rbody"
             /\ listeners_' = [listeners_ EXCEPT ![intScope] = EraseListener(@, f.lid)]
             /\ listenersMutex_' = 0
             /\ unsubscribed' = unsubscribed \cup {f.lid}
             /\ Replace(t, [f EXCEPT !.pc = "ret"])
    /\ UNCHANGED << storeVars, mutexVars, fixedVars, log, expected,
                    nextListenerId_, handles >>

\* notifyListeners without the try/catch around the callback
notifyListeners_rethrows(t) ==
    /\ Depth(t) > 0
    /\ LET f == Top(t)
       IN \/ /\ f.pc = "nlock" /\ listenersMutex_ = 0
             /\ listenersMutex_' = t
             /\ Replace(t, [f EXCEPT !.pc = "ncopy"])
             /\ UNCHANGED log
          \/ /\ f.pc = "ncopy"
             /\ listenersMutex_' = 0
             /\ Replace(t, [f EXCEPT !.pc = "ncall", !.copy = listeners_[f.nscope],
                                     !.idx = 1])
             /\ UNCHANGED log
          \/ /\ f.pc = "ncall" /\ f.idx <= Len(f.copy)
             /\ LET listener == f.copy[f.idx]
                    note == f.notes[f.j]
                    entry == [lid |-> listener.id, key |-> note.key, value |-> note.value,
                              scope |-> f.nscope, depth |-> Depth(t), j |-> f.j,
                              late |-> listener.id \in unsubscribed, seen |-> << >>]
                    rest == [stack[t] EXCEPT ![Depth(t)] =
                                IF listener.callback.kind = "throw"
                                THEN Raise(f, "ListenerError")
                                ELSE [f EXCEPT !.idx = f.idx + 1]]
                IN /\ log' = [log EXCEPT ![t] = Append(@, entry)]
                   /\ stack' = [stack EXCEPT ![t] =
                        IF CallsBack(listener.callback)
                        THEN Append(rest, Frame(CallbackCall(listener.callback, f.nscope,
                                                             note.key),
                                                Len(log[t]) + 1))
                        ELSE rest]
             /\ UNCHANGED listenersMutex_
          \/ /\ f.pc = "ncall" /\ f.idx > Len(f.copy)
             /\ Replace(t, [f EXCEPT !.j = f.j + 1,
                                     !.pc = IF f.j < Len(f.notes) THEN "nlock" ELSE "ret"])
             /\ UNCHANGED << listenersMutex_, log >>
    /\ UNCHANGED << storeVars, mutexVars, fixedVars, expected, listeners_,
                    nextListenerId_, handles, unsubscribed >>

\* notifyListeners that walks the registry itself instead of a copy of it
notifyListeners_live(t) ==
    /\ Depth(t) > 0
    /\ LET f == Top(t)
           live == listeners_[f.nscope]
       IN \/ /\ f.pc = "nlock" /\ listenersMutex_ = 0
             /\ listenersMutex_' = t
             /\ Replace(t, [f EXCEPT !.pc = "ncopy"])
             /\ UNCHANGED log
          \/ /\ f.pc = "ncopy"
             /\ listenersMutex_' = 0
             /\ Replace(t, [f EXCEPT !.pc = "ncall", !.idx = 1])
             /\ UNCHANGED log
          \/ /\ f.pc = "ncall" /\ f.idx <= Len(live)
             /\ LET listener == live[f.idx]
                    note == f.notes[f.j]
                    entry == [lid |-> listener.id, key |-> note.key, value |-> note.value,
                              scope |-> f.nscope, depth |-> Depth(t), j |-> f.j,
                              late |-> listener.id \in unsubscribed, seen |-> << >>]
                    rest == [stack[t] EXCEPT ![Depth(t)] = [f EXCEPT !.idx = f.idx + 1]]
                IN /\ log' = [log EXCEPT ![t] = Append(@, entry)]
                   /\ stack' = [stack EXCEPT ![t] =
                        IF CallsBack(listener.callback)
                        THEN Append(rest, Frame(CallbackCall(listener.callback, f.nscope,
                                                             note.key),
                                                Len(log[t]) + 1))
                        ELSE rest]
             /\ UNCHANGED listenersMutex_
          \/ /\ f.pc = "ncall" /\ f.idx > Len(live)
             /\ Replace(t, [f EXCEPT !.j = f.j + 1,
                                     !.pc = IF f.j < Len(f.notes) THEN "nlock" ELSE "ret"])
             /\ UNCHANGED << listenersMutex_, log >>
    /\ UNCHANGED << storeVars, mutexVars, fixedVars, expected, listeners_,
                    nextListenerId_, handles, unsubscribed >>

\* notifyListeners that passes over a listener of the copy which is no
\* longer registered when its turn comes
notifyListeners_skipsRemoved(t) ==
    /\ Depth(t) > 0
    /\ LET f == Top(t)
       IN \/ /\ f.pc = "nlock" /\ listenersMutex_ = 0
             /\ listenersMutex_' = t
             /\ Replace(t, [f EXCEPT !.pc = "ncopy"])
             /\ UNCHANGED log
          \/ /\ f.pc = "ncopy"
             /\ listenersMutex_' = 0
             /\ Replace(t, [f EXCEPT !.pc = "ncall", !.copy = listeners_[f.nscope],
                                     !.idx = 1])
             /\ UNCHANGED log
          \/ /\ f.pc = "ncall" /\ f.idx <= Len(f.copy)
             /\ LET listener == f.copy[f.idx]
                    note == f.notes[f.j]
                    entry == [lid |-> listener.id, key |-> note.key, value |-> note.value,
                              scope |-> f.nscope, depth |-> Depth(t), j |-> f.j,
                              late |-> listener.id \in unsubscribed, seen |-> << >>]
                    rest == [stack[t] EXCEPT ![Depth(t)] = [f EXCEPT !.idx = f.idx + 1]]
                    gone == \A n \in 1 .. Len(listeners_[f.nscope]) :
                                listeners_[f.nscope][n].id # listener.id
                IN /\ log' = [log EXCEPT ![t] = IF gone THEN @ ELSE Append(@, entry)]
                   /\ stack' = [stack EXCEPT ![t] =
                        IF ~gone /\ CallsBack(listener.callback)
                        THEN Append(rest, Frame(CallbackCall(listener.callback, f.nscope,
                                                             note.key),
                                                Len(log[t]) + 1))
                        ELSE rest]
             /\ UNCHANGED listenersMutex_
          \/ /\ f.pc = "ncall" /\ f.idx > Len(f.copy)
             /\ Replace(t, [f EXCEPT !.j = f.j + 1,
                                     !.pc = IF f.j < Len(f.notes) THEN "nlock" ELSE "ret"])
             /\ UNCHANGED << listenersMutex_, log >>
    /\ UNCHANGED << storeVars, mutexVars, fixedVars, expected, listeners_,
                    nextListenerId_, handles, unsubscribed >>

\* notifyListeners whose lock_guard spans the callbacks as well as the copy
notifyListeners_underLock(t) ==
    /\ Depth(t) > 0
    /\ LET f == Top(t)
       IN \/ /\ f.pc = "nlock" /\ listenersMutex_ = 0
             /\ listenersMutex_' = t
             /\ Replace(t, [f EXCEPT !.pc = "ncopy"])
             /\ UNCHANGED log
          \/ /\ f.pc = "ncopy"
             /\ UNCHANGED listenersMutex_
             /\ Replace(t, [f EXCEPT !.pc = "ncall", !.copy = listeners_[f.nscope],
                                     !.idx = 1])
             /\ UNCHANGED log
          \/ /\ f.pc = "ncall" /\ f.idx <= Len(f.copy)
             /\ LET listener == f.copy[f.idx]
                    note == f.notes[f.j]
                    entry == [lid |-> listener.id, key |-> note.key, value |-> note.value,
                              scope |-> f.nscope, depth |-> Depth(t), j |-> f.j,
                              late |-> listener.id \in unsubscribed, seen |-> << >>]
                    rest == [stack[t] EXCEPT ![Depth(t)] = [f EXCEPT !.idx = f.idx + 1]]
                IN /\ log' = [log EXCEPT ![t] = Append(@, entry)]
                   /\ stack' = [stack EXCEPT ![t] =
                        IF CallsBack(listener.callback)
                        THEN Append(rest, Frame(CallbackCall(listener.callback, f.nscope,
                                                             note.key),
                                                Len(log[t]) + 1))
                        ELSE rest]
             /\ UNCHANGED listenersMutex_
          \/ /\ f.pc = "ncall" /\ f.idx > Len(f.copy)
             /\ listenersMutex_' = 0
             /\ Replace(t, [f EXCEPT !.j = f.j + 1,
                                     !.pc = IF f.j < Len(f.notes) THEN "nlock" ELSE "ret"])
             /\ UNCHANGED log
    /\ UNCHANGED << storeVars, mutexVars, fixedVars, expected, listeners_,
                    nextListenerId_, handles, unsubscribed >>

\* notifyListeners(scope, key, value), called once per note of the operation:
\* copy the scope's listeners under listenersMutex_, release it, then invoke
\* each callback of the copy.  An invocation is logged; a callback that calls
\* back into the dispatcher pushes the frame of that call.
notifyListeners(t) ==
    /\ Depth(t) > 0
    /\ LET f == Top(t)
       IN \/ /\ f.pc = "nlock" /\ listenersMutex_ = 0
             /\ listenersMutex_' = t
             /\ Replace(t, [f EXCEPT !.pc = "ncopy"])
             /\ UNCHANGED log
          \/ /\ f.pc = "ncopy"
             /\ listenersMutex_' = 0
             /\ Replace(t, [f EXCEPT !.pc = "ncall", !.copy = listeners_[f.nscope],
                                     !.idx = 1])
             /\ UNCHANGED log
          \/ /\ f.pc = "ncall" /\ f.idx <= Len(f.copy)
             /\ LET listener == f.copy[f.idx]
                    note == f.notes[f.j]
                    entry == [lid |-> listener.id, key |-> note.key, value |-> note.value,
                              scope |-> f.nscope, depth |-> Depth(t), j |-> f.j,
                              late |-> listener.id \in unsubscribed, seen |-> << >>]
                    rest == [stack[t] EXCEPT ![Depth(t)] = [f EXCEPT !.idx = f.idx + 1]]
                IN /\ log' = [log EXCEPT ![t] = Append(@, entry)]
                   /\ stack' = [stack EXCEPT ![t] =
                        IF CallsBack(listener.callback)
                        THEN Append(rest, Frame(CallbackCall(listener.callback, f.nscope,
                                                             note.key),
                                                Len(log[t]) + 1))
                        ELSE rest]
             /\ UNCHANGED listenersMutex_
          \/ /\ f.pc = "ncall" /\ f.idx > Len(f.copy)
             /\ Replace(t, [f EXCEPT !.j = f.j + 1,
                                     !.pc = IF f.j < Len(f.notes) THEN "nlock" ELSE "ret"])
             /\ UNCHANGED << listenersMutex_, log >>
    /\ UNCHANGED << storeVars, mutexVars, fixedVars, expected, listeners_,
                    nextListenerId_, handles, unsubscribed >>

----------------------------------------------------------------------------
\* Calls and returns

\* The host calls a public operation on thread t; it registers a listener
\* while fewer than most ids exist.
CallWithin(t, c, most) ==
    /\ stack[t] = << >>
    /\ c.op = "addOnChange" => nextListenerId_ + PendingAdds < most
    /\ c.op = "unsubscribe" => c.lid < Len(handles)
    /\ stack' = [stack EXCEPT ![t] = << Frame(c, 0) >>]
    /\ UNCHANGED << storeVars, mutexVars, registryVars, fixedVars, log, expected >>

Call(t, c) == CallWithin(t, c, MaxListeners)

\* The call returns (or its exception leaves it).  A callback that called
\* get(key, scope) has seen the result; the log of a public call ends with it.
Return(t) ==
    /\ Depth(t) > 0 /\ Top(t).pc = "ret"
    /\ LET f == Top(t)
       IN /\ stack' = [stack EXCEPT ![t] = SubSeq(@, 1, Len(@) - 1)]
          /\ log' = [log EXCEPT ![t] =
                IF Depth(t) = 1 THEN << >>
                ELSE IF f.op = "get" /\ f.at > 0 /\ f.err = ""
                     THEN [@ EXCEPT ![f.at].seen = << f.opts[1] >>]
                     ELSE @]
    /\ UNCHANGED << storeVars, mutexVars, registryVars, fixedVars, expected >>

\* The dispatcher as constructed: with an adapter (the constructor taking
\* one), or without (the default constructor where no platform adapter is
\* compiled in).
Constructed(adapter) ==
    /\ memoryStore_ = EmptyMap
    /\ diskStore_ = EmptyMap
    /\ secureStore_ = EmptyMap
    /\ biometricStore_ = EmptyMap
    /\ memoryMutex_ = 0
    /\ diskMutex_ = 0
    /\ secureMutex_ = 0
    /\ biometricMutex_ = 0
    /\ accessControlLevel_ = 0
    /\ keychainGroup_ = ""
    /\ nativeAdapter_ = adapter
    /\ listeners_ = [s \in IntScopes |-> << >>]
    /\ listenersMutex_ = 0
    /\ nextListenerId_ = 0
    /\ handles = << >>
    /\ stack = [t \in Threads |-> << >>]
    /\ log = [t \in Threads |-> << >>]
    /\ expected = [d \in Domains |-> EmptyMap]
    /\ unsubscribed = {}
    /\ focus \in {0, 2, 4}

Init == Constructed(TRUE)

\* The steps of the store accesses and of the notification, common to all
\* operations.
Engine(t) ==
    \/ Lock(t)
    \/ Unlock(t)
    \/ WriteBegin(t)
    \/ WriteCommit(t)
    \/ EraseKey(t)
    \/ ClearStore(t)
    \/ ReadKey(t)
    \/ notifyListeners(t)
    \/ Return(t)

----------------------------------------------------------------------------
\* Spec: one thread; the single-key and the batch operations, concentrated
\* on the scope in focus, with the same key also set in the other scopes.

Values == {"1", "2"}
Selectors == {0, 2, 4}
BadSelectors == {-2, 3, 6}
BatchKeys == {<< >>, << "a" >>, << "a", "b" >>, << "b", "a" >>}
BatchValues == {<< >>, << "1" >>, << "1", "2" >>, << "2", "1" >>}
WithCallback(c, cb) == [c EXCEPT !.cb = cb]

StoreCalls ==
    {CallOf("set", << k >>, << v >>, focus) : k \in Keys, v \in Values}
    \cup {CallOf("set", << "a" >>, << kBatchMissingSentinel >>, focus)}
    \cup {CallOf("set", << "a" >>, << "1" >>, s) : s \in Selectors}
    \cup {CallOf(op, << k >>, << >>, focus) : op \in {"get", "remove"}, k \in Keys}
    \cup {CallOf(op, << "a" >>, << >>, s) : op \in {"get", "remove"}, s \in Selectors}
    \cup {CallOf("clear", << >>, << >>, s) : s \in Selectors}
BatchCalls ==
    {CallOf("setBatch", ks, vs, focus) : ks \in BatchKeys, vs \in BatchValues}
    \cup {CallOf("setBatch", << "a" >>, << >>, s) : s \in BadSelectors}
    \cup {CallOf(op, ks, << >>, focus) : op \in {"getBatch", "removeBatch"},
                                         ks \in BatchKeys}

Next ==
    \E t \in {1} :
        \/ \E c \in StoreCalls \cup BatchCalls
                        \cup {CallOf("addOnChange", << >>, << >>, focus)} : Call(t, c)
        \/ set(t)
        \/ get(t)
        \/ remove(t)
        \/ clear(t)
        \/ setBatch(t)
        \/ getBatch(t)
        \/ removeBatch(t)
        \/ addOnChange(t)
        \/ Engine(t)

Spec == Init /\ [][Next]_vars

----------------------------------------------------------------------------
\* SpecListen: one thread; listeners whose callbacks do nothing, read the
\* notified key back, or call an unsubscribe closure; the mutations of the
\* scope in focus, the biometric ones when that scope is Secure, and adapter
\* calls that throw.

Callbacks ==
    {NoCallback, [kind |-> "get", target |-> 0]}
    \cup {[kind |-> "unsub", target |-> n] : n \in 0 .. MaxListeners - 1}
Throwing(c, kind) == [c EXCEPT !.fail = [kind |-> kind, at |-> 1]]
Unsubscribe(lid) == [CallOf("unsubscribe", << >>, << >>, 0) EXCEPT !.lid = lid]

MutationCalls ==
    {CallOf("set", << "a" >>, << v >>, focus) : v \in Values}
    \cup {CallOf("remove", << "a" >>, << >>, focus), CallOf("clear", << >>, << >>, focus)}
    \cup (IF focus = 0 THEN {}
          ELSE {Throwing(CallOf("set", << "a" >>, << "1" >>, focus), "std")})
BiometricCalls ==
    IF focus # 4 THEN {}
    ELSE {CallOf("setSecureBiometric", << "a" >>, << "1" >>, 4),
          Throwing(CallOf("setSecureBiometric", << "a" >>, << "2" >>, 4), "other"),
          CallOf("deleteSecureBiometric", << "a" >>, << >>, 4),
          CallOf("clearSecureBiometric", << >>, << >>, 4)}
ListenerCalls ==
    {WithCallback(CallOf("addOnChange", << >>, << >>, focus), cb) : cb \in Callbacks}
    \cup {Unsubscribe(lid) : lid \in 0 .. MaxListeners - 1}

NextListen ==
    \E t \in {1} :
        \/ \E c \in MutationCalls \cup BiometricCalls \cup ListenerCalls : Call(t, c)
        \/ set(t)
        \/ get(t)
        \/ remove(t)
        \/ clear(t)
        \/ setSecureBiometric(t)
        \/ deleteSecureBiometric(t)
        \/ clearSecureBiometric(t)
        \/ addOnChange(t)
        \/ unsubscribe(t)
        \/ Lock(t)
        \/ Unlock(t)
        \/ WriteBegin(t)
        \/ WriteCommit(t)
        \/ EraseKey(t)
        \/ ClearStore(t)
        \/ ReadKey(t)
        \/ AdapterThrows(t)
        \/ notifyListeners(t)
        \/ Return(t)

SpecListen == Init /\ [][NextListen]_vars

----------------------------------------------------------------------------
\* SpecThreads: two threads, each working on a key of its own (as the
\* threads of testThreadSafety do) in the scope in focus.

KeyOf(t) == IF t = 1 THEN "a" ELSE "b"
ThreadCalls(t) ==
    {CallOf("set", << KeyOf(t) >>, << v >>, focus) : v \in Values}
    \cup {CallOf(op, << KeyOf(t) >>, << >>, focus) : op \in {"get", "remove"}}

NextThreads ==
    \E t \in Threads :
        \/ \E c \in ThreadCalls(t) : Call(t, c)
        \/ set(t)
        \/ get(t)
        \/ remove(t)
        \/ Lock(t)
        \/ Unlock(t)
        \/ WriteBegin(t)
        \/ WriteCommit(t)
        \/ EraseKey(t)
        \/ ReadKey(t)
        \/ notifyListeners(t)
        \/ Return(t)

SpecThreads == Init /\ [][NextThreads]_vars

----------------------------------------------------------------------------
\* SpecRegistry: one thread; registrations under valid and invalid selectors
\* (the scope in focus, the same plus one half, 3.0 and -1.0), with callbacks
\* that return or throw; unsubscribe closures called any number of times;
\* set and remove on the scope in focus.

RegistrySelectors == {focus, focus + 1, 6, -2}
RegistryCallbacks == {NoCallback, [kind |-> "throw", target |-> 0]}
RegistryCalls ==
    {WithCallback(CallOf("addOnChange", << >>, << >>, sel), cb) :
        sel \in RegistrySelectors, cb \in RegistryCallbacks}
    \cup {Unsubscribe(lid) : lid \in 0 .. MaxListeners - 1}
    \cup {CallOf("set", << "a" >>, << "1" >>, focus),
          CallOf("remove", << "a" >>, << >>, focus)}

NextRegistry ==
    \E t \in {1} :
        \/ \E c \in RegistryCalls : Call(t, c)
        \/ set(t)
        \/ remove(t)
        \/ addOnChange(t)
        \/ unsubscribe(t)
        \/ Lock(t)
        \/ Unlock(t)
        \/ WriteBegin(t)
        \/ WriteCommit(t)
        \/ EraseKey(t)
        \/ notifyListeners(t)
        \/ Return(t)

SpecRegistry == Init /\ [][NextRegistry]_vars

----------------------------------------------------------------------------
\* SpecFaults: one thread; a dispatcher with or without an adapter; every
\* operation on the scope in focus and on invalid selectors, the biometric
\* and configuration operations, with adapter calls that return or throw (a
\* std::exception or something else; a batch also after its first key).

InitAny == \E adapter \in BOOLEAN : Constructed(adapter)

Faults == {NoFail, [kind |-> "std", at |-> 1], [kind |-> "other", at |-> 1]}
WithFault(c, fl) == [c EXCEPT !.fail = fl]

ScopedCalls(sel) ==
    {CallOf("set", << "a" >>, << "1" >>, sel),
     CallOf("get", << "a" >>, << >>, sel),
     CallOf("remove", << "a" >>, << >>, sel),
     CallOf("has", << "a" >>, << >>, sel),
     CallOf("getAllKeys", << >>, << >>, sel),
     CallOf("size", << >>, << >>, sel),
     CallOf("clear", << >>, << >>, sel),
     CallOf("setBatch", << "a", "b" >>, << "1", "2" >>, sel),
     CallOf("getBatch", << "a", "b" >>, << >>, sel),
     CallOf("removeBatch", << "a", "b" >>, << >>, sel)}
SecureOnlyCalls ==
    {CallOf("setSecureBiometric", << "a" >>, << "1" >>, 4),
     CallOf("getSecureBiometric", << "a" >>, << >>, 4),
     CallOf("deleteSecureBiometric", << "a" >>, << >>, 4),
     CallOf("hasSecureBiometric", << "a" >>, << >>, 4),
     CallOf("clearSecureBiometric", << >>, << >>, 4),
     CallOf("setSecureAccessControl", << >>, << >>, 2),
     CallOf("setKeychainAccessGroup", << >>, << "group" >>, 0)}
FaultCalls ==
    {WithFault(c, fl) : c \in ScopedCalls(focus), fl \in Faults}
    \cup {WithFault(c, [kind |-> "std", at |-> 2]) :
            c \in {b \in ScopedCalls(focus) : Len(b.keys) = 2}}
    \cup UNION {ScopedCalls(sel) : sel \in BadSelectors}
    \cup {CallOf("setBatch", << "a" >>, << >>, sel) : sel \in BadSelectors \cup {focus}}
    \cup (IF focus = 4 THEN {WithFault(c, fl) : c \in SecureOnlyCalls, fl \in Faults}
          ELSE {})
    \cup {CallOf("addOnChange", << >>, << >>, focus)}

NextFaults ==
    \E t \in {1} :
        \/ \E c \in FaultCalls : Call(t, c)
        \/ set(t)
        \/ get(t)
        \/ remove(t)
        \/ has(t)
        \/ getAllKeys(t)
        \/ size(t)
        \/ clear(t)
        \/ setBatch(t)
        \/ getBatch(t)
        \/ removeBatch(t)
        \/ setSecureBiometric(t)
        \/ getSecureBiometric(t)
        \/ deleteSecureBiometric(t)
        \/ hasSecureBiometric(t)
        \/ clearSecureBiometric(t)
        \/ setSecureAccessControl(t)
        \/ setKeychainAccessGroup(t)
        \/ addOnChange(t)
        \/ Lock(t)
        \/ Unlock(t)
        \/ WriteBegin(t)
        \/ WriteCommit(t)
        \/ EraseKey(t)
        \/ ClearStore(t)
        \/ ReadKey(t)
        \/ CountKey(t)
        \/ ListKeys(t)
        \/ SizeOf(t)
        \/ Configure(t)
        \/ AdapterThrows(t)
        \/ notifyListeners(t)
        \/ Return(t)

SpecFaults == InitAny /\ [][NextFaults]_vars

----------------------------------------------------------------------------
\* SpecReentrant: two threads and one key of the Memory scope.  Thread 1
\* sets the key and registers listeners that do nothing; thread 2 registers
\* listeners for the scope and calls unsubscribe closures while thread 1's
\* notification may be running.  The callbacks read the key back, register
\* another listener (whose callback does nothing), or call the unsubscribe
\* closure of listener 1 (their own, an earlier or a later listener's).

InitReentrant == Init /\ focus = 0

ReentrantCallbacks ==
    {[kind |-> "get", target |-> 0], [kind |-> "add", target |-> 0],
     [kind |-> "unsub", target |-> 1]}
ReentrantCalls(t) ==
    IF t = 1 THEN {CallOf("set", << "a" >>, << "1" >>, focus),
                   CallOf("addOnChange", << >>, << >>, focus)}
    ELSE {WithCallback(CallOf("addOnChange", << >>, << >>, focus), cb) :
            cb \in ReentrantCallbacks}
         \cup {Unsubscribe(lid) : lid \in {0, 1}}

NextReentrant ==
    \E t \in Threads :
        \/ \E c \in ReentrantCalls(t) : Call(t, c)
        \/ set(t)
        \/ get(t)
        \/ addOnChange(t)
        \/ unsubscribe(t)
        \/ Lock(t)
        \/ Unlock(t)
        \/ WriteBegin(t)
        \/ WriteCommit(t)
        \/ ReadKey(t)
        \/ notifyListeners(t)
        \/ Return(t)

SpecReentrant == InitReentrant /\ [][NextReentrant]_vars

----------------------------------------------------------------------------
\* SpecScopes: one thread; listeners registered for any of the three scopes;
\* every scoped operation on the scope in focus, over two keys; the biometric
\* operations, with a value of their own for the key the Secure store holds
\* too, when that scope is Secure.

ScopeCalls ==
    {CallOf("set", << k >>, << "1" >>, focus) : k \in Keys}
    \cup {CallOf(op, << k >>, << >>, focus) : op \in {"get", "has"}, k \in Keys}
    \cup {CallOf("remove", << "a" >>, << >>, focus),
          CallOf("getAllKeys", << >>, << >>, focus),
          CallOf("size", << >>, << >>, focus),
          CallOf("clear", << >>, << >>, focus),
          CallOf("setBatch", << "a", "b" >>, << "1", "2" >>, focus),
          CallOf("getBatch", << "a", "b" >>, << >>, focus),
          CallOf("removeBatch", << "a", "b" >>, << >>, focus)}
    \cup {CallOf("addOnChange", << >>, << >>, sel) : sel \in Selectors}
    \cup (IF focus # 4 THEN {}
          ELSE {CallOf("setSecureBiometric", << "a" >>, << "2" >>, 4),
                CallOf("getSecureBiometric", << "a" >>, << >>, 4),
                CallOf("deleteSecureBiometric", << "a" >>, << >>, 4),
                CallOf("hasSecureBiometric", << "a" >>, << >>, 4),
                CallOf("clearSecureBiometric", << >>, << >>, 4)})

NextScopes ==
    \E t \in {1} :
        \/ \E c \in ScopeCalls : Call(t, c)
        \/ set(t)
        \/ get(t)
        \/ remove(t)
        \/ has(t)
        \/ getAllKeys(t)
        \/ size(t)
        \/ clear(t)
        \/ setBatch(t)
        \/ getBatch(t)
        \/ removeBatch(t)
        \/ setSecureBiometric(t)
        \/ getSecureBiometric(t)
        \/ deleteSecureBiometric(t)
        \/ hasSecureBiometric(t)
        \/ clearSecureBiometric(t)
        \/ addOnChange(t)
        \/ Lock(t)
        \/ Unlock(t)
        \/ WriteBegin(t)
        \/ WriteCommit(t)
        \/ EraseKey(t)
        \/ ClearStore(t)
        \/ ReadKey(t)
        \/ CountKey(t)
        \/ ListKeys(t)
        \/ SizeOf(t)
        \/ notifyListeners(t)
        \/ Return(t)

SpecScopes == Init /\ [][NextScopes]_vars

----------------------------------------------------------------------------
\* SpecOrder: one thread; up to MaxOrdered listeners for the scope in focus,
\* with callbacks that do nothing or call the unsubscribe closure of
\* listener 1; unsubscribe closures called by the host; set on the scope.

OrderCalls ==
    {WithCallback(CallOf("addOnChange", << >>, << >>, focus), cb) :
        cb \in {NoCallback, [kind |-> "unsub", target |-> 1]}}
    \cup {Unsubscribe(lid) : lid \in 0 .. MaxOrdered - 1}
    \cup {CallOf("set", << "a" >>, << "1" >>, focus)}

NextOrder ==
    \E t \in {1} :
        \/ \E c \in OrderCalls : CallWithin(t, c, MaxOrdered)
        \/ set(t)
        \/ addOnChange(t)
        \/ unsubscribe(t)
        \/ Lock(t)
        \/ Unlock(t)
        \/ WriteBegin(t)
        \/ WriteCommit(t)
        \/ notifyListeners(t)
        \/ Return(t)

SpecOrder == Init /\ [][NextOrder]_vars

----------------------------------------------------------------------------
\* SpecBatch: two threads on the Memory scope.  Thread 1 sets both keys to
\* one value in one batch and removes both in one batch; thread 2 reads them,
\* singly and in one batch, and sets both in the other order.

BatchPairs(t) ==
    IF t = 1
    THEN {CallOf("setBatch", << "a", "b" >>, << v, v >>, 0) : v \in Values}
         \cup {CallOf("removeBatch", << "a", "b" >>, << >>, 0)}
    ELSE {CallOf("getBatch", << "a", "b" >>, << >>, 0),
          CallOf("get", << "b" >>, << >>, 0),
          CallOf("setBatch", << "b", "a" >>, << "1", "1" >>, 0)}

NextBatch ==
    \E t \in Threads :
        \/ \E c \in BatchPairs(t) : Call(t, c)
        \/ setBatch(t)
        \/ removeBatch(t)
        \/ getBatch(t)
        \/ get(t)
        \/ Lock(t)
        \/ Unlock(t)
        \/ WriteBegin(t)
        \/ WriteCommit(t)
        \/ EraseKey(t)
        \/ ReadKey(t)
        \/ notifyListeners(t)
        \/ Return(t)

SpecBatch == InitReentrant /\ [][NextBatch]_vars

----------------------------------------------------------------------------
\* SpecSameKey: two threads mutate one key of the Memory scope, thread 1
\* setting it to "1", thread 2 setting it to "2" or removing it; thread 2
\* also registers listeners that do nothing.

SameKeyCalls(t) ==
    IF t = 1 THEN {CallOf("set", << "a" >>, << "1" >>, 0)}
    ELSE {CallOf("set", << "a" >>, << "2" >>, 0),
          CallOf("remove", << "a" >>, << >>, 0),
          CallOf("addOnChange", << >>, << >>, 0)}

NextSameKey ==
    \E t \in Threads :
        \/ \E c \in SameKeyCalls(t) : Call(t, c)
        \/ set(t)
        \/ remove(t)
        \/ addOnChange(t)
        \/ Lock(t)
        \/ Unlock(t)
        \/ WriteBegin(t)
        \/ WriteCommit(t)
        \/ EraseKey(t)
        \/ notifyListeners(t)
        \/ Return(t)

SpecSameKey == InitReentrant /\ [][NextSameKey]_vars

----------------------------------------------------------------------------
\* SpecNested: one thread; listeners of the scope in focus whose callbacks do
\* nothing, set the key they are notified about or remove it; unsubscribe
\* closures called by the host; set and remove on the scope.

NestedCallbacks ==
    {NoCallback, [kind |-> "set", target |-> 0], [kind |-> "remove", target |-> 0]}

NestedCalls ==
    {WithCallback(CallOf("addOnChange", << >>, << >>, focus), cb) : cb \in NestedCallbacks}
    \cup {Unsubscribe(lid) : lid \in 0 .. MaxListeners - 1}
    \cup {CallOf("set", << "a" >>, << v >>, focus) : v \in Values}
    \cup {CallOf("remove", << "a" >>, << >>, focus)}

NextNested ==
    \E t \in {1} :
        \/ \E c \in NestedCalls : Call(t, c)
        \/ set(t)
        \/ remove(t)
        \/ addOnChange(t)
        \/ unsubscribe(t)
        \/ Lock(t)
        \/ Unlock(t)
        \/ WriteBegin(t)
        \/ WriteCommit(t)
        \/ EraseKey(t)
        \/ notifyListeners(t)
        \/ Return(t)

SpecNested == Init /\ [][NextNested]_vars

----------------------------------------------------------------------------
\* SpecLive: two threads on the Memory scope under fair scheduling.  Thread 1
\* sets a key; thread 2 reads it with getBatch, clears the scope, registers a
\* listener while none is registered, whose callback removes the key it is
\* notified about or calls the unsubscribe closure of listener 0, and calls
\* that closure itself.  The host may stop calling at any time; a thread
\* inside a call that can take a step again and again eventually takes one
\* (a thread blocked on a std::mutex that is released again and again
\* eventually acquires it).

LiveCallbacks == {[kind |-> "remove", target |-> 0], [kind |-> "unsub", target |-> 0]}

LiveCalls(t) ==
    IF t = 1 THEN {CallOf("set", << "a" >>, << "1" >>, 0)}
    ELSE {CallOf("getBatch", << "a" >>, << >>, 0),
          CallOf("clear", << >>, << >>, 0),
          Unsubscribe(0)}
         \cup {WithCallback(CallOf("addOnChange", << >>, << >>, 0), cb) :
                 cb \in LiveCallbacks}

\* The steps of thread t inside a call.
Running(t) ==
    \/ set(t)
    \/ remove(t)
    \/ clear(t)
    \/ getBatch(t)
    \/ addOnChange(t)
    \/ unsubscribe(t)
    \/ Lock(t)
    \/ Unlock(t)
    \/ WriteBegin(t)
    \/ WriteCommit(t)
    \/ EraseKey(t)
    \/ ClearStore(t)
    \/ ReadKey(t)
    \/ notifyListeners(t)
    \/ Return(t)

NextLive ==
    \E t \in Threads :
        \/ \E c \in LiveCalls(t) :
              /\ c.op = "addOnChange" => listeners_[Memory] = << >>
              /\ CallWithin(t, c, MaxLive)
        \/ Running(t)

SpecLive ==
    /\ InitReentrant
    /\ [][NextLive]_vars
    /\ \A t \in Threads : SF_vars(Running(t))

----------------------------------------------------------------------------
\* What the claims speak about

\* Thread t's public call is about to return op to the host.
Returning(t, op) == Depth(t) = 1 /\ Top(t).op = op /\ Top(t).pc = "ret"
\* The callback invocations made by the frame at this depth of thread t.
Deliveries(t, depth) == SelectSeq(log[t], LAMBDA e : e.depth = depth)
ListenerIds(ls) == [n \in 1 .. Len(ls) |-> ls[n].id]
\* One notification (key, value) reached exactly the listeners ls, in order.
DeliveredOnce(ds, ls, key, value) ==
    /\ [n \in 1 .. Len(ds) |-> ds[n].lid] = ListenerIds(ls)
    /\ \A n \in 1 .. Len(ds) : ds[n].key = key /\ ds[n].value = value
StoresUnchanged(f) ==
    /\ memoryStore_ = f.pre.memory
    /\ diskStore_ = f.pre.disk
    /\ secureStore_ = f.pre.secure
    /\ biometricStore_ = f.pre.biometric
    /\ configVars = f.pre.config

\* C1: on every scope, get(k, s) returns the value of the most recent set or
\* setBatch pair for k, and no value when k was never set or was last removed
\* (remove, removeBatch) or cleared.
C1_GetReturnsLastMutation ==
    \A t \in Threads :
        Returning(t, "get") =>
            LET f == Top(t)
            IN /\ f.err = ""
               /\ f.opts = << Find(expected[Intended(f)], f.keys[1]) >>

C1_Witness ==
    /\ Returning(1, "get")
    /\ Top(1).sel = 4
    /\ Top(1).opts = << Some("2") >>
    /\ "b" \in DOMAIN secureStore_

C1_WitnessAbsent ==
    /\ Returning(1, "get")
    /\ Top(1).sel = 2
    /\ Top(1).opts = << nullopt >>

\* C2: two threads run set, get and remove concurrently, each on its own key
\* of the Memory store or of a mock adapter store: a get returns exactly what
\* the thread's own last set or remove left under its key (never a lost or a
\* half-written value), and once no call is in progress every store holds,
\* for every key, what its owner's last mutation left.
C2_DisjointKeysNeverLost ==
    /\ \A t \in Threads :
            Returning(t, "get") =>
                Top(t).opts = << Find(expected[Intended(Top(t))], Top(t).keys[1]) >>
    /\ (\A t \in Threads : stack[t] = << >>) =>
            \A d \in Domains : Store(d) = expected[d]

C2_Witness ==
    /\ Returning(1, "get")
    /\ Top(1).opts = << Some("2") >>
    /\ Depth(2) = 1 /\ Top(2).op = "set" /\ Top(2).pc = "commit"
    /\ Top(2).dom = Top(1).dom

\* A successful mutation of the Secure scope, about to return on thread t.
SecureMutationReturns(t) ==
    /\ Depth(t) = 1 /\ Top(t).pc = "ret" /\ Top(t).err = ""
    /\ \/ Top(t).op \in {"set", "remove", "clear"} /\ Top(t).sel = 4
       \/ Top(t).op \in {"setSecureBiometric", "deleteSecureBiometric",
                          "clearSecureBiometric"}
TimesInvoked(t, lid) ==
    Cardinality({n \in 1 .. Len(log[t]) : log[t][n].depth = 1 /\ log[t][n].lid = lid})

\* C3: a successful set, remove or clear on Secure, and a successful
\* setSecureBiometric, deleteSecureBiometric or clearSecureBiometric, invokes
\* every listener registered for Secure when the operation started exactly
\* once, and nobody else.
C3_SecureListenerOncePerMutation ==
    \A t \in Threads :
        SecureMutationReturns(t) =>
            LET ls == Top(t).pre.listeners[Secure]
            IN /\ \A n \in 1 .. Len(ls) : TimesInvoked(t, ls[n].id) = 1
               /\ Len(log[t]) = Len(ls)

C3_Witness ==
    /\ SecureMutationReturns(1)
    /\ Top(1).op = "deleteSecureBiometric"
    /\ Len(Top(1).pre.listeners[Secure]) = 2
    /\ Top(1).pre.listeners[Secure][1].callback = [kind |-> "unsub", target |-> 0]
    /\ listeners_[Secure] # Top(1).pre.listeners[Secure]

C3_WitnessSet ==
    /\ SecureMutationReturns(1)
    /\ Top(1).op = "set"
    /\ Len(log[1]) = 2

\* C4 (as claimed): no callback is invoked once the unsubscribe closure of
\* its listener has run.
C4_NoCallAfterUnsubscribe ==
    \A t \in Threads : \A n \in 1 .. Len(log[t]) : ~log[t][n].late

\* C5: a set(k, v, s) that succeeds has delivered (k, v), once and in order,
\* to the listeners registered for s when the notification began, and the
\* store already held v when the callbacks ran: a callback that calls
\* get(k, s) gets v.
C5_SetNotifiesAfterStore ==
    \A t \in Threads :
        (Returning(t, "set") /\ Top(t).err = "") =>
            LET f == Top(t)
                ls == f.pre.listeners[f.sel \div 2]
                ds == Deliveries(t, 1)
            IN /\ DeliveredOnce(ds, ls, f.keys[1], Some(f.values[1]))
               /\ \A n \in 1 .. Len(ds) :
                    ls[n].callback.kind = "get" => ds[n].seen = << Some(f.values[1]) >>

C5_Witness ==
    /\ Returning(1, "set") /\ Top(1).err = ""
    /\ Top(1).values = << "2" >>
    /\ Top(1).pre[Intended(Top(1))] = [k \in {"a"} |-> "1"]
    /\ Len(log[1]) = 2
    /\ log[1][2].seen = << Some("2") >>

\* C6: setBatch with keys and values of different lengths raises the
\* invalid-argument error, whatever the selector, and changes nothing: no
\* store, no listener, no adapter call, no notification.
C6_MismatchedBatchRejected ==
    \A t \in Threads :
        (Returning(t, "setBatch") /\ Len(Top(t).keys) # Len(Top(t).values)) =>
            LET f == Top(t)
            IN /\ f.err = "InvalidArgument"
               /\ StoresUnchanged(f)
               /\ listeners_ = f.pre.listeners
               /\ f.calls = 0
               /\ log[t] = << >>

C6_Witness ==
    /\ Returning(1, "setBatch")
    /\ Top(1).keys = << "a", "b" >> /\ Top(1).values = << "1" >>
    /\ Top(1).sel = 2
    /\ listeners_[1] # << >>

C6_WitnessBadSelector ==
    /\ Returning(1, "setBatch")
    /\ Len(Top(1).keys) # Len(Top(1).values)
    /\ Top(1).sel = 3

\* C7: getBatch(ks, s) returns one element per key of ks, the i-th being the
\* value stored for ks[i] (the missing-key sentinel when there is none), in
\* the order of ks.
C7_BatchPositional ==
    \A t \in Threads :
        (Returning(t, "getBatch") /\ Top(t).err = "") =>
            LET f == Top(t)
                results == getBatchResults(f.opts)
                m == expected[Intended(f)]
            IN /\ Len(results) = Len(f.keys)
               /\ \A n \in 1 .. Len(f.keys) :
                    results[n] = IF f.keys[n] \in DOMAIN m THEN m[f.keys[n]]
                                 ELSE kBatchMissingSentinel

C7_Witness ==
    /\ Returning(1, "getBatch")
    /\ Top(1).keys = << "b", "a" >>
    /\ getBatchResults(Top(1).opts) = << "2", "1" >>

\* C8 (as claimed): position i of getBatch's result is the sentinel exactly
\* when keys[i] is absent from the store.
C8_SentinelIffMissing ==
    \A t \in Threads :
        (Returning(t, "getBatch") /\ Top(t).err = "") =>
            LET f == Top(t)
                results == getBatchResults(f.opts)
            IN \A n \in 1 .. Len(f.keys) :
                    (results[n] = kBatchMissingSentinel)
                        <=> (f.keys[n] \notin DOMAIN Store(f.dom))

\* C9: remove(k, s) of a key that is not stored succeeds, leaves the store as
\* it was and still notifies (k, no value) to the scope's listeners; after
\* remove the store is the one before it without k, so a second remove
\* changes nothing more.
C9_RemoveIdempotent ==
    \A t \in Threads :
        Returning(t, "remove") =>
            LET f == Top(t)
                d == Intended(f)
            IN /\ f.err = ""
               /\ Store(d) = Erase(f.pre[d], f.keys[1])
               /\ f.keys[1] \notin DOMAIN f.pre[d] => StoresUnchanged(f)
               /\ \A o \in Domains \ {d} : Store(o) = f.pre[o]
               /\ DeliveredOnce(log[t], f.pre.listeners[f.sel \div 2], f.keys[1], nullopt)

C9_Witness ==
    /\ Returning(1, "remove")
    /\ Top(1).keys[1] \notin DOMAIN Top(1).pre[Intended(Top(1))]
    /\ Top(1).sel = 4
    /\ Len(log[1]) = 2

\* C10: clear(s) notifies each listener of the scope exactly once, with the
\* empty key and no value, however many keys the store held.
C10_ClearNotifiesOnce ==
    \A t \in Threads :
        (Returning(t, "clear") /\ Top(t).err = "") =>
            LET f == Top(t)
            IN /\ DeliveredOnce(log[t], f.pre.listeners[f.sel \div 2], "", nullopt)
               /\ Store(Intended(f)) = EmptyMap

C10_Witness ==
    /\ Returning(1, "clear")
    /\ Cardinality(DOMAIN Top(1).pre[Intended(Top(1))]) = 2
    /\ Len(log[1]) = 2

C10_WitnessEmpty ==
    /\ Returning(1, "clear")
    /\ Top(1).pre[Intended(Top(1))] = EmptyMap
    /\ Len(log[1]) = 1

\* The notifications a batch owes: one per key, in input order.
BatchNotes(f) ==
    [n \in 1 .. Len(f.keys) |->
        Note(f.keys[n], IF f.op = "setBatch" THEN Some(f.values[n]) ELSE nullopt)]

\* C11: a successful setBatch or removeBatch has notified every listener of
\* the scope once per key, key after key in input order, the i-th round
\* carrying (keys[i], values[i]) or (keys[i], no value); and whenever a
\* notification of a batch has been delivered, the store already holds the
\* whole batch.
C11_BatchNotifiesAfterApplied ==
    \A t \in Threads :
        (Depth(t) >= 1 /\ stack[t][1].op \in {"setBatch", "removeBatch"}) =>
            LET f == stack[t][1]
                ls == f.pre.listeners[f.sel \div 2]
                d == Intended(f)
            IN /\ log[t] # << >> =>
                    Store(d) = Effect(f, Len(f.keys), f.pre[d])
               /\ (Returning(t, f.op) /\ f.err = "") =>
                    /\ Len(log[t]) = Len(f.keys) * Len(ls)
                    /\ \A n \in 1 .. Len(log[t]) :
                         LET i == ((n - 1) \div Len(ls)) + 1
                             l == ((n - 1) % Len(ls)) + 1
                         IN /\ log[t][n].lid = ls[l].id
                            /\ Note(log[t][n].key, log[t][n].value) = BatchNotes(f)[i]

C11_Witness ==
    /\ Returning(1, "removeBatch") /\ Top(1).err = ""
    /\ Top(1).keys = << "b", "a" >>
    /\ DOMAIN Top(1).pre[Intended(Top(1))] = {"a", "b"}
    /\ Len(log[1]) = 4

C11_WitnessSet ==
    /\ Depth(1) = 1 /\ Top(1).op = "setBatch" /\ Top(1).pc = "ncall"
    /\ Top(1).keys = << "a", "b" >> /\ Top(1).values = << "2", "1" >>
    /\ Len(log[1]) = 1

\* C12: a call of an unsubscribe closure returns without error and leaves, in
\* every scope, the registrations it found minus its own (id, scope), the
\* others in their order; when its own is already gone it changes nothing.
C12_UnsubscribeExactAndIdempotent ==
    \A t \in Threads :
        (Depth(t) > 0 /\ Top(t).op = "unsubscribe" /\ Top(t).pc = "ret") =>
            LET f == Top(t)
            IN /\ f.err = ""
               /\ \A s \in IntScopes :
                    listeners_[s] = SelectSeq(f.pre.listeners[s],
                                              LAMBDA l : ~(l.id = f.lid /\ s = handles[f.lid + 1]))
               /\ \A s \in IntScopes : \A n \in 1 .. Len(f.pre.listeners[s]) :
                    f.pre.listeners[s][n].id = f.lid => s = handles[f.lid + 1]

\* the first call, with a second registration of the same callback in the scope
C12_Witness ==
    /\ Returning(1, "unsubscribe") /\ Top(1).lid = 0
    /\ ListenerIds(Top(1).pre.listeners[focus \div 2]) = << 0, 1 >>
    /\ \A n \in 1 .. 2 : Top(1).pre.listeners[focus \div 2][n].callback = NoCallback
    /\ ListenerIds(listeners_[focus \div 2]) = << 1 >>

\* the first call, with a registration in another scope
C12_WitnessOtherScope ==
    /\ Returning(1, "unsubscribe") /\ Top(1).lid = 1
    /\ ListenerIds(Top(1).pre.listeners[3]) = << 0 >>
    /\ ListenerIds(Top(1).pre.listeners[focus \div 2]) = << 1 >>
    /\ ListenerIds(listeners_[3]) = << 0 >>
    /\ listeners_[focus \div 2] = << >>

\* a later call, after another listener was registered
C12_WitnessAgain ==
    /\ Returning(1, "unsubscribe") /\ Top(1).lid = 0
    /\ listeners_ = Top(1).pre.listeners
    /\ 0 \in unsubscribed
    /\ \E s \in IntScopes : listeners_[s] # << >>

Throws(ls) == \E n \in 1 .. Len(ls) : ls[n].callback.kind = "throw"

\* C13: when a callback of the notification throws, set and remove still
\* return without error, every listener of the scope (those after the
\* throwing one included) has been invoked once, and the store holds the
\* mutation.
C13_ThrowingListenerIsolated ==
    \A t \in Threads :
        (Depth(t) = 1 /\ Top(t).op \in {"set", "remove"} /\ Top(t).pc = "ret"
            /\ Throws(Top(t).pre.listeners[Top(t).sel \div 2])) =>
            LET f == Top(t)
                d == Intended(f)
            IN /\ f.err = ""
               /\ DeliveredOnce(log[t], f.pre.listeners[f.sel \div 2], f.keys[1],
                                IF f.op = "set" THEN Some(f.values[1]) ELSE nullopt)
               /\ Store(d) = Effect(f, 1, f.pre[d])

C13_Witness ==
    /\ Returning(1, "set")
    /\ Len(Top(1).pre.listeners[focus \div 2]) = 2
    /\ Top(1).pre.listeners[focus \div 2][1].callback.kind = "throw"
    /\ Top(1).pre.listeners[focus \div 2][2].callback.kind = "noop"
    /\ Len(log[1]) = 2

\* C15 (as claimed): addOnChange with a selector other than 0, 1, 2 raises an
\* error and registers nothing.
C15_InvalidSelectorNotRegistered ==
    \A t \in Threads :
        (Returning(t, "addOnChange") /\ Top(t).sel \notin Selectors) =>
            /\ Top(t).err # ""
            /\ listeners_ = Top(t).pre.listeners

ScopedOps ==
    {"set", "get", "remove", "has", "getAllKeys", "size", "clear", "setBatch",
     "getBatch", "removeBatch"}
Mismatched(f) == f.op = "setBatch" /\ Len(f.keys) # Len(f.values)
\* A public call of one of these operations is about to return or raise.
Leaving(t, ops) == Depth(t) = 1 /\ Top(t).pc = "ret" /\ Top(t).op \in ops
\* Nothing was touched: no store, no adapter call, no callback.
Untouched(t) == StoresUnchanged(Top(t)) /\ Top(t).calls = 0 /\ log[t] = << >>

\* C14 (as claimed): every scoped operation given a selector other than 0, 1,
\* 2 raises the invalid-scope error and touches nothing.
C14_InvalidSelectorRaisesInvalidScope ==
    \A t \in Threads :
        (Leaving(t, ScopedOps) /\ Top(t).sel \notin Selectors) =>
            Top(t).err = "InvalidScope" /\ Untouched(t)

\* C14 (amended): every scoped operation given a selector other than 0, 1, 2
\* raises the invalid-scope error, except setBatch with keys and values of
\* different lengths, which raises the invalid-argument error; in every case
\* nothing is touched.
C14_InvalidSelectorRejected ==
    \A t \in Threads :
        (Leaving(t, ScopedOps) /\ Top(t).sel \notin Selectors) =>
            /\ Top(t).err = IF Mismatched(Top(t)) THEN "InvalidArgument" ELSE "InvalidScope"
            /\ Untouched(t)

\* selector 1.5 with a listener and two keys in the Disk store
C14_Witness ==
    /\ Leaving(1, {"removeBatch"}) /\ Top(1).sel = 3
    /\ Top(1).err = "InvalidScope"
    /\ nativeAdapter_ /\ DOMAIN diskStore_ = {"a", "b"}
    /\ listeners_[Disk] # << >>

C14_WitnessNegative ==
    /\ Leaving(1, {"size"}) /\ Top(1).sel = -2
    /\ ~nativeAdapter_

\* The notifications an operation owes its scope's listeners.
Owed(f) ==
    CASE f.op = "set" -> << Note(f.keys[1], Some(f.values[1])) >>
      [] f.op = "remove" -> << Note(f.keys[1], nullopt) >>
      [] f.op = "clear" -> << Note("", nullopt) >>
      [] f.op \in {"setBatch", "removeBatch"} -> BatchNotes(f)
      [] OTHER -> << >>
\* Each of the notes reached each of the listeners ls once, note after note.
Notified(ds, ls, notes) ==
    /\ Len(ds) = Len(notes) * Len(ls)
    /\ \A n \in 1 .. Len(ds) :
         /\ ds[n].lid = ls[((n - 1) % Len(ls)) + 1].id
         /\ Note(ds[n].key, ds[n].value) = notes[((n - 1) \div Len(ls)) + 1]
\* What a read of the map m returns.
Answer(f, m) ==
    CASE f.op = "get" -> f.opts = << Find(m, f.keys[1]) >>
      [] f.op = "has" -> f.opts = << f.keys[1] \in DOMAIN m >>
      [] f.op = "size" -> f.opts = << Cardinality(DOMAIN m) >>
      [] f.op = "getAllKeys" -> Len(f.opts) = 1 /\ f.opts[1] \in Orders(DOMAIN m)
      [] f.op = "getBatch" -> f.opts = [n \in 1 .. Len(f.keys) |-> Find(m, f.keys[n])]
      [] OTHER -> f.opts = << >>

BiometricOps ==
    {"setSecureBiometric", "getSecureBiometric", "deleteSecureBiometric",
     "hasSecureBiometric", "clearSecureBiometric"}

\* A Memory-scope operation, with or without an adapter, returns without
\* error the answer of the map it found, leaves the map its effect produces
\* and delivers the notifications it owes, without an adapter call.
MemoryAsEver(t) ==
    (Leaving(t, ScopedOps) /\ Top(t).sel = 0 /\ ~Mismatched(Top(t))) =>
        LET f == Top(t)
        IN /\ f.err = ""
           /\ Answer(f, f.pre.memory)
           /\ memoryStore_ = Effect(f, IntendedSteps(f), f.pre.memory)
           /\ Notified(log[t], f.pre.listeners[Memory], Owed(f))
           /\ f.calls = 0

\* C16 (as claimed): without an adapter every Disk- or Secure-scope operation
\* and every biometric operation raises the adapter-not-configured error and
\* touches nothing, while the Memory-scope operations behave as ever.
C16_NoAdapterAlwaysNotConfigured ==
    \A t \in Threads :
        /\ (/\ ~nativeAdapter_
            /\ \/ Leaving(t, ScopedOps) /\ Top(t).sel \in {2, 4}
               \/ Leaving(t, BiometricOps)) =>
                Top(t).err = "AdapterNotConfigured" /\ Untouched(t)
        /\ MemoryAsEver(t)

\* C16 (amended): the same, except that setBatch with keys and values of
\* different lengths raises the invalid-argument error first (C6).
C16_AdapterOnlyWhereNeeded ==
    \A t \in Threads :
        /\ (/\ ~nativeAdapter_
            /\ \/ Leaving(t, ScopedOps) /\ Top(t).sel \in {2, 4} /\ ~Mismatched(Top(t))
               \/ Leaving(t, BiometricOps)) =>
                Top(t).err = "AdapterNotConfigured" /\ Untouched(t)
        /\ (/\ ~nativeAdapter_
            /\ Leaving(t, ScopedOps) /\ Top(t).sel \in {2, 4} /\ Mismatched(Top(t))) =>
                Top(t).err = "InvalidArgument" /\ Untouched(t)
        /\ MemoryAsEver(t)

C16_Witness ==
    /\ ~nativeAdapter_
    /\ Leaving(1, {"removeBatch"}) /\ Top(1).sel = 0
    /\ DOMAIN Top(1).pre.memory = {"a", "b"}
    /\ Len(log[1]) = 4

C16_WitnessSecure ==
    /\ ~nativeAdapter_
    /\ Leaving(1, {"setBatch"}) /\ Top(1).sel = 4
    /\ Top(1).err = "AdapterNotConfigured"
    /\ listeners_[Secure] # << >>

C16_WitnessBiometric ==
    /\ ~nativeAdapter_
    /\ Leaving(1, {"clearSecureBiometric"})

\* The adapter was called by this operation and threw.
AdapterFailed(f) ==
    f.dom # "memory" /\ f.calls > 0 /\ f.fail.kind # "none" /\ f.fail.at <= Steps(f)
AdapterBacked == ScopedOps \cup BiometricOps
                    \cup {"setSecureAccessControl", "setKeychainAccessGroup"}
Mutating ==
    {"set", "remove", "clear", "setBatch", "removeBatch", "setSecureBiometric",
     "deleteSecureBiometric", "clearSecureBiometric"}

\* C17 (as claimed): whatever the adapter throws, in any adapter-backed
\* operation, reaches the caller as the dispatcher's own error.
C17_AdapterFailureWrapped ==
    \A t \in Threads :
        (Leaving(t, AdapterBacked) /\ AdapterFailed(Top(t))) =>
            Top(t).err = "AdapterOperationFailed"

\* C18: when the adapter call of a mutating operation throws, the operation
\* raises an error, no callback has run, the Memory store and the registry
\* are as before, and the adapter was called once; also when the adapter had
\* applied the first key of a batch.
C18_FailedMutationSilent ==
    \A t \in Threads :
        (Leaving(t, Mutating) /\ AdapterFailed(Top(t))) =>
            LET f == Top(t)
            IN /\ f.err # ""
               /\ log[t] = << >>
               /\ memoryStore_ = f.pre.memory
               /\ listeners_ = f.pre.listeners
               /\ f.calls = 1

\* a batch that fails at its second key, the first one applied
C18_Witness ==
    /\ Leaving(1, {"setBatch"}) /\ AdapterFailed(Top(1))
    /\ Top(1).fail.at = 2
    /\ Top(1).pre.secure = EmptyMap /\ DOMAIN secureStore_ = {"a"}
    /\ Len(listeners_[Secure]) = 2

C18_WitnessBiometric ==
    /\ Leaving(1, {"setSecureBiometric"}) /\ AdapterFailed(Top(1))
    /\ Top(1).fail.kind = "other"
    /\ listeners_[Secure] # << >>

\* C19: when the adapter's get or batch get throws, get and getBatch raise an
\* error: the caller gets neither "no value" nor a sentinel.
C19_FailedReadRaises ==
    \A t \in Threads :
        (Leaving(t, {"get", "getBatch"}) /\ AdapterFailed(Top(t))) =>
            Top(t).err = "AdapterOperationFailed"

C19_Witness ==
    /\ Leaving(1, {"get"}) /\ AdapterFailed(Top(1))
    /\ Top(1).fail.kind = "other" /\ Top(1).sel = 2
    /\ "a" \notin DOMAIN diskStore_

C19_WitnessBatch ==
    /\ Leaving(1, {"getBatch"}) /\ AdapterFailed(Top(1))
    /\ Top(1).fail.at = 2 /\ Top(1).sel = 4
    /\ secureStore_ = EmptyMap

\* C20: no thread ever holds memoryMutex_ and listenersMutex_ together.
C20_NeverBothMutexes ==
    \A t \in Threads : ~(memoryMutex_ = t /\ listenersMutex_ = t)

\* one thread copies the listeners while the other is writing the Memory map
C20_Witness ==
    /\ listenersMutex_ = 1 /\ Top(1).dom = "memory" /\ Top(1).op = "set"
    /\ memoryMutex_ = 2 /\ Top(2).pc = "commit"

\* Thread t is in the callback loop of a notification: between two
\* callbacks, or inside a call that a callback has made.
InCallbacks(t) == \E d \in 1 .. Depth(t) : stack[t][d].pc = "ncall"
\* The call on top of thread t's stack is inside its own critical section.
InRegistrySection(t) == Depth(t) > 0 /\ Top(t).pc \in {"rbody", "ncopy"}
InStoreSection(t, d) ==
    Depth(t) > 0 /\ Top(t).pc \in {"body", "commit"} /\ Top(t).dom = d
\* The call on top of thread t's stack waits for listenersMutex_.
AwaitsRegistry(t) ==
    /\ Depth(t) > 0 /\ Top(t).pc = "enter"
    /\ Top(t).op \in {"addOnChange", "unsubscribe"}

\* C21: while a notification's callbacks run, the notifying call holds
\* neither listenersMutex_ nor memoryMutex_ (a mutex the thread holds then
\* belongs to the critical section of the call a callback made); so a call
\* made by a callback (unsubscribe, addOnChange, get) never waits for a mutex
\* its own thread holds, and an addOnChange or unsubscribe of another thread
\* never waits for the thread whose callback is running.
C21_CallbacksRunUnlocked ==
    \A t \in Threads :
        /\ InCallbacks(t) =>
              /\ listenersMutex_ = t => InRegistrySection(t) /\ Top(t).pc # "ncopy"
              /\ \A d \in Domains : Mutex(d) = t => InStoreSection(t, d)
        /\ (Depth(t) > 1 /\ AwaitsRegistry(t)) => listenersMutex_ # t
        /\ (Depth(t) > 1 /\ Top(t).pc = "lock") => Mutex(Top(t).dom) # t
        /\ \A u \in Threads \ {t} :
              (InCallbacks(t) /\ ~InRegistrySection(t) /\ AwaitsRegistry(u)) =>
                  listenersMutex_ = 0

\* listener 1's callback is erasing listener 1, its own registration
C21_Witness ==
    /\ Depth(1) = 2 /\ Top(1).op = "unsubscribe" /\ Top(1).pc = "rbody"
    /\ Top(1).lid = 1 /\ log[1][Len(log[1])].lid = 1
    /\ listenersMutex_ = 1

\* listener 0's callback has erased the listener after it
C21_WitnessOther ==
    /\ Depth(1) = 2 /\ Top(1).op = "unsubscribe" /\ Top(1).pc = "ret"
    /\ log[1][Len(log[1])].lid = 0 /\ Len(stack[1][1].copy) = 2
    /\ Len(listeners_[Memory]) = 1

\* a callback registers a listener, another reads the Memory map
C21_WitnessAdd ==
    /\ Depth(1) = 2 /\ Top(1).op = "addOnChange" /\ Top(1).pc = "rbody"

C21_WitnessGet ==
    /\ Depth(1) = 2 /\ Top(1).op = "get" /\ Top(1).pc = "body" /\ memoryMutex_ = 1

\* thread 2 registers a listener while thread 1's callback waits in get
C21_WitnessConcurrent ==
    /\ Depth(1) = 2 /\ Top(1).op = "get" /\ Top(1).pc = "lock"
    /\ Depth(2) = 1 /\ Top(2).op = "addOnChange" /\ Top(2).pc = "rbody"
    /\ listenersMutex_ = 2

ConfigOps == {"setSecureAccessControl", "setKeychainAccessGroup"}
\* The entries of the four stores are those the call found.
EntriesUnchanged(f) ==
    /\ memoryStore_ = f.pre.memory
    /\ diskStore_ = f.pre.disk
    /\ secureStore_ = f.pre.secure
    /\ biometricStore_ = f.pre.biometric

\* C23 (as claimed): the two configuration setters leave every entry of the
\* four stores and the registry unchanged, emit no notification and never
\* raise an error.
C23_ConfigNeverRaises ==
    \A t \in Threads :
        Leaving(t, ConfigOps) =>
            /\ EntriesUnchanged(Top(t))
            /\ listeners_ = Top(t).pre.listeners
            /\ log[t] = << >>
            /\ Top(t).err = ""

\* C23 (amended): the two configuration setters leave every entry of the
\* four stores and the registry unchanged and emit no notification; they
\* raise an error exactly when no adapter is attached (the
\* adapter-not-configured error) or the adapter's setter itself fails, and
\* otherwise the adapter has received the setting.
C23_ConfigPassThrough ==
    \A t \in Threads :
        Leaving(t, ConfigOps) =>
            LET f == Top(t)
            IN /\ EntriesUnchanged(f)
               /\ listeners_ = f.pre.listeners
               /\ log[t] = << >>
               /\ f.err = "" <=> (nativeAdapter_ /\ ~AdapterFailed(f))
               /\ ~nativeAdapter_ => f.err = "AdapterNotConfigured"
               /\ (f.err = "" /\ f.op = "setSecureAccessControl") =>
                     accessControlLevel_ = StaticCastInt(f.sel)
               /\ (f.err = "" /\ f.op = "setKeychainAccessGroup") =>
                     keychainGroup_ = f.values[1]

\* the setting is passed on while the Secure store holds an entry and a
\* Secure listener is registered
C23_Witness ==
    /\ Leaving(1, {"setKeychainAccessGroup"}) /\ Top(1).err = ""
    /\ keychainGroup_ = "group" /\ Top(1).pre.config[2] = ""
    /\ secureStore_ # EmptyMap /\ listeners_[Secure] # << >>

C23_WitnessLevel ==
    /\ Leaving(1, {"setSecureAccessControl"}) /\ Top(1).err = ""
    /\ accessControlLevel_ = 1 /\ biometricStore_ # EmptyMap

C23_WitnessNoAdapter ==
    /\ Leaving(1, {"setSecureAccessControl"}) /\ ~nativeAdapter_
    /\ Top(1).err = "AdapterNotConfigured"

C23_WitnessAdapterFails ==
    /\ Leaving(1, {"setKeychainAccessGroup"}) /\ AdapterFailed(Top(1))
    /\ keychainGroup_ = ""

\* The notifications a biometric operation owes the Secure listeners.
BiometricOwed(f) ==
    CASE f.op = "setSecureBiometric" -> << Note(f.keys[1], Some(f.values[1])) >>
      [] f.op = "deleteSecureBiometric" -> << Note(f.keys[1], nullopt) >>
      [] f.op = "clearSecureBiometric" -> << Note("", nullopt) >>
      [] OTHER -> << >>
\* The int scope under which the listener with this id was registered.
RegisteredFor(lid) == handles[lid + 1]

\* C22: a biometric mutation notifies the Secure listeners, and only them:
\* setSecureBiometric(k, v) with (k, v), deleteSecureBiometric(k) with
\* (k, no value), clearSecureBiometric with ("", no value), each listener
\* once; getSecureBiometric and hasSecureBiometric invoke no listener.
C22_BiometricNotifiesSecureOnly ==
    \A t \in Threads :
        (Leaving(t, BiometricOps) /\ Top(t).err = "") =>
            /\ Notified(log[t], Top(t).pre.listeners[Secure], BiometricOwed(Top(t)))
            /\ \A n \in 1 .. Len(log[t]) : RegisteredFor(log[t][n].lid) = Secure

\* a Disk listener (id 0) and a Secure listener (id 1): only the latter is told
C22_Witness ==
    /\ Leaving(1, {"setSecureBiometric"})
    /\ ListenerIds(listeners_[Disk]) = << 0 >> /\ ListenerIds(listeners_[Secure]) = << 1 >>
    /\ Len(log[1]) = 1 /\ log[1][1].lid = 1
    /\ log[1][1].key = "a" /\ log[1][1].value = Some("2")

C22_WitnessDelete ==
    /\ Leaving(1, {"deleteSecureBiometric"})
    /\ Len(listeners_[Memory]) = 1 /\ Len(listeners_[Secure]) = 1
    /\ Len(log[1]) = 1 /\ log[1][1].value = nullopt /\ log[1][1].key = "a"

C22_WitnessClear ==
    /\ Leaving(1, {"clearSecureBiometric"})
    /\ Len(listeners_[Secure]) = 2
    /\ Len(log[1]) = 2 /\ log[1][2].value = nullopt /\ log[1][2].key = ""

C22_WitnessRead ==
    /\ Leaving(1, {"getSecureBiometric"}) /\ Top(1).opts = << Some("2") >>
    /\ Len(listeners_[Secure]) = 2 /\ log[1] = << >>

\* C24: the read operations of a scope answer from one and the same map:
\* has(k, s) is true exactly when k is in it, get(k, s) returns a value
\* exactly then, getAllKeys(s) lists exactly its keys, each once, size(s) is
\* their number (so 0 for a store never written), and clear(s) leaves it
\* empty (so size is 0 right after).
C24_ReadsAgree ==
    \A t \in Threads :
        (Leaving(t, {"has", "get", "getAllKeys", "size", "clear"}) /\ Top(t).err = "") =>
            LET f == Top(t)
                m == Store(f.dom)
            IN /\ f.op = "has" => f.opts = << f.keys[1] \in DOMAIN m >>
               /\ f.op = "get" => (f.opts[1] # nullopt <=> f.keys[1] \in DOMAIN m)
               /\ f.op = "getAllKeys" =>
                     LET ks == f.opts[1]
                     IN /\ \A a, b \in 1 .. Len(ks) : a # b => ks[a] # ks[b]
                        /\ {ks[a] : a \in 1 .. Len(ks)} = DOMAIN m
                        /\ Len(ks) = Cardinality(DOMAIN m)
               /\ f.op = "size" => f.opts = << Cardinality(DOMAIN m) >>
               /\ f.op = "clear" => m = EmptyMap

\* has finds a key of a Disk store with two entries
C24_Witness ==
    /\ Leaving(1, {"has"}) /\ Top(1).sel = 2 /\ Top(1).keys = << "b" >>
    /\ Top(1).opts = << TRUE >> /\ DOMAIN diskStore_ = {"a", "b"}
    /\ memoryStore_ = EmptyMap

C24_WitnessAbsent ==
    /\ Leaving(1, {"has"}) /\ Top(1).sel = 4 /\ Top(1).keys = << "a" >>
    /\ Top(1).opts = << FALSE >> /\ DOMAIN secureStore_ = {"b"}
    /\ "a" \in DOMAIN biometricStore_

C24_WitnessKeys ==
    /\ Leaving(1, {"getAllKeys"}) /\ Top(1).sel = 0
    /\ Top(1).opts = << << "b", "a" >> >>

C24_WitnessSize ==
    /\ Leaving(1, {"size"}) /\ Top(1).sel = 4 /\ Top(1).opts = << 2 >>

\* size of a store that was never written
C24_WitnessNew ==
    /\ Leaving(1, {"size"}) /\ Top(1).opts = << 0 >> /\ Top(1).sel = 2
    /\ nextListenerId_ = 0 /\ expected["disk"] = EmptyMap

\* C25: set(k, v, s) and remove(k, s) change nothing but the entry of k in
\* scope s: every other key of s and every entry of the other scopes (the
\* entry of the same key name too) is as the call found it.
C25_OnlyTheKeyOfTheScope ==
    \A t \in Threads :
        (Leaving(t, {"set", "remove"}) /\ Top(t).err = "") =>
            LET f == Top(t)
                d == Intended(f)
            IN /\ \A k \in Keys \ {f.keys[1]} : Find(Store(d), k) = Find(f.pre[d], k)
               /\ \A o \in Domains \ {d} : Store(o) = f.pre[o]
               /\ Find(Store(d), f.keys[1]) =
                     IF f.op = "set" THEN Some(f.values[1]) ELSE nullopt

\* remove of a key that all three scopes hold, beside another key
C25_Witness ==
    /\ Leaving(1, {"remove"}) /\ Top(1).sel = 2 /\ Top(1).keys = << "a" >>
    /\ "a" \in DOMAIN Top(1).pre.disk /\ "b" \in DOMAIN diskStore_
    /\ "a" \in DOMAIN memoryStore_ /\ "a" \in DOMAIN secureStore_

\* set of a key that the other two scopes hold with another value
C25_WitnessSet ==
    /\ Leaving(1, {"set"}) /\ Top(1).sel = 0 /\ Top(1).keys = << "a" >>
    /\ Top(1).values = << "2" >> /\ "b" \in DOMAIN memoryStore_
    /\ Find(diskStore_, "a") = Some("1") /\ Find(secureStore_, "a") = Some("1")

\* C26: every listener that set, remove, clear, setBatch or removeBatch on
\* scope s invokes was registered for s, so a listener registered for
\* another scope is never invoked by it; get, has, getAllKeys, size and
\* getBatch invoke no listener.
C26_OtherScopesSilent ==
    \A t \in Threads :
        (Leaving(t, ScopedOps) /\ Top(t).err = "") =>
            LET f == Top(t)
            IN /\ \A n \in 1 .. Len(log[t]) :
                     RegisteredFor(log[t][n].lid) = f.sel \div 2
               /\ f.op \in {"get", "has", "getAllKeys", "size", "getBatch"} =>
                     log[t] = << >>

\* a Disk listener (id 0) and a Memory listener (id 1); setBatch on Disk
C26_Witness ==
    /\ Leaving(1, {"setBatch"}) /\ Top(1).sel = 2
    /\ ListenerIds(listeners_[Disk]) = << 0 >> /\ ListenerIds(listeners_[Memory]) = << 1 >>
    /\ [n \in 1 .. Len(log[1]) |-> log[1][n].lid] = << 0, 0 >>

\* a Secure listener and a Disk listener; clear on Memory invokes neither
C26_WitnessNone ==
    /\ Leaving(1, {"clear"}) /\ Top(1).sel = 0
    /\ Len(listeners_[Secure]) = 1 /\ Len(listeners_[Disk]) = 1
    /\ log[1] = << >>

C26_WitnessRead ==
    /\ Leaving(1, {"getBatch"}) /\ Top(1).sel = 4
    /\ Len(listeners_[Secure]) = 2 /\ log[1] = << >>
    /\ Top(1).opts = << Some("1"), nullopt >>

\* C27: getSecureBiometric(k) and hasSecureBiometric(k) answer from the
\* biometric mutations alone (the value of the last setSecureBiometric(k, v)
\* until a deleteSecureBiometric(k) or clearSecureBiometric), whatever set,
\* remove and clear did to the same key name in the Secure scope; and get and
\* has on the Secure scope answer from the Secure-scope mutations alone.
C27_BiometricApartFromSecure ==
    \A t \in Threads :
        /\ (Leaving(t, {"getSecureBiometric"}) /\ Top(t).err = "") =>
              Top(t).opts = << Find(expected["biometric"], Top(t).keys[1]) >>
        /\ (Leaving(t, {"hasSecureBiometric"}) /\ Top(t).err = "") =>
              Top(t).opts = << Top(t).keys[1] \in DOMAIN expected["biometric"] >>
        /\ (Leaving(t, {"get"}) /\ Top(t).err = "" /\ Top(t).sel = 4) =>
              Top(t).opts = << Find(expected["secure"], Top(t).keys[1]) >>
        /\ (Leaving(t, {"has"}) /\ Top(t).err = "" /\ Top(t).sel = 4) =>
              Top(t).opts = << Top(t).keys[1] \in DOMAIN expected["secure"] >>

\* the biometric value of a key whose Secure entry has another value
C27_Witness ==
    /\ Leaving(1, {"getSecureBiometric"}) /\ Top(1).opts = << Some("2") >>
    /\ Find(secureStore_, "a") = Some("1")

\* the key is in the Secure scope only
C27_WitnessAbsent ==
    /\ Leaving(1, {"hasSecureBiometric"}) /\ Top(1).opts = << FALSE >>
    /\ "a" \in DOMAIN secureStore_

\* the key is in the biometric domain only, after a clear of the Secure scope
C27_WitnessReverse ==
    /\ Leaving(1, {"get"}) /\ Top(1).sel = 4 /\ Top(1).keys = << "a" >>
    /\ Top(1).opts = << nullopt >>
    /\ Find(biometricStore_, "a") = Some("2")

\* The ids of the listeners registered for any scope, and all ids handed out
\* so far (a listener leaves the registry through its unsubscribe closure only).
RegisteredIds == UNION {{listeners_[s][n].id : n \in 1 .. Len(listeners_[s])} : s \in IntScopes}
HandedOut == RegisteredIds \cup unsubscribed
\* Thread t's step is the registration of addOnChange, or the erase of a closure.
Registers(t) ==
    /\ Depth(t) > 0 /\ Top(t).op = "addOnChange" /\ Top(t).pc = "rbody"
    /\ stack'[t] # stack[t]
Erases(t) ==
    /\ Depth(t) > 0 /\ Top(t).op = "unsubscribe" /\ Top(t).pc = "rbody"
    /\ stack'[t] # stack[t]

\* C28: every registration, by the host or by a callback, on either thread,
\* takes an id greater than every id handed out before, registered or
\* unsubscribed since; and an unsubscribe closure removes no listener but
\* the one with the id it captured.
C28_ListenerIdsFresh ==
    [][\A t \in Threads :
          /\ Registers(t) =>
                LET id == stack'[t][Depth(t)].lid
                IN /\ \A h \in HandedOut : id > h
                   /\ id \in RegisteredIds'
                   /\ nextListenerId_' > id
          /\ Erases(t) =>
                \A s \in IntScopes : \A n \in 1 .. Len(listeners_[s]) :
                    listeners_[s][n].id # Top(t).lid =>
                        \E m \in 1 .. Len(listeners_'[s]) :
                            listeners_'[s][m] = listeners_[s][n]]_vars

\* id 1 is given out after listener 0 was unsubscribed, by a callback of
\* thread 1 while thread 2 calls the old closure again
C28_Witness ==
    /\ Depth(1) = 2 /\ Top(1).op = "addOnChange" /\ Top(1).pc = "ret" /\ Top(1).lid = 1
    /\ 0 \in unsubscribed /\ ListenerIds(listeners_[Memory]) = << 1 >>
    /\ Depth(2) = 1 /\ Top(2).op = "unsubscribe" /\ Top(2).lid = 0 /\ Top(2).pc = "ret"

\* the two threads register at the same time
C28_WitnessRace ==
    /\ Depth(1) = 1 /\ Top(1).op = "addOnChange" /\ Top(1).pc = "enter"
    /\ Depth(2) = 1 /\ Top(2).op = "addOnChange" /\ Top(2).pc = "rbody"

\* The ids of a sequence of listeners or of callback invocations ascend.
Ascending(ids) == \A a, b \in 1 .. Len(ids) : a < b => ids[a] < ids[b]
\* The ids of the listeners that notification j of the call at this depth invoked.
InvokedBy(t, depth, j) ==
    LET ds == SelectSeq(log[t], LAMBDA e : e.depth = depth /\ e.j = j)
    IN  [n \in 1 .. Len(ds) |-> ds[n].lid]

\* C29: a notification invokes its listeners in the order of their
\* registration (ids ascend with registration), and the listeners that
\* remain after an unsubscribe keep their relative order in the registry.
C29_RegistrationOrder ==
    /\ \A s \in IntScopes : Ascending(ListenerIds(listeners_[s]))
    /\ \A t \in Threads : \A e \in {log[t][n] : n \in 1 .. Len(log[t])} :
          Ascending(InvokedBy(t, e.depth, e.j))

\* three listeners; the first was unsubscribed, the other two are invoked
C29_Witness ==
    /\ Leaving(1, {"set"}) /\ unsubscribed = {0}
    /\ InvokedBy(1, 1, 1) = << 1, 2 >>
    /\ Top(1).pre.listeners = listeners_

\* the middle one was unsubscribed by the first one's callback
C29_WitnessDuring ==
    /\ Leaving(1, {"set"}) /\ InvokedBy(1, 1, 1) = << 0, 1, 2 >>
    /\ ListenerIds(listeners_[Top(1).sel \div 2]) = << 0, 2 >>

\* Thread t's step takes the snapshot of a notification, or ends its loop.
TakesSnapshot(t) ==
    /\ Depth(t) > 0 /\ Top(t).pc = "ncopy"
    /\ Len(stack'[t]) = Depth(t) /\ stack'[t][Depth(t)].pc = "ncall"
EndsNotification(t) ==
    /\ Depth(t) > 0 /\ Top(t).pc = "ncall"
    /\ Len(stack'[t]) = Depth(t) /\ stack'[t][Depth(t)].pc # "ncall"

\* C30: the snapshot of a notification is the scope's registry at the
\* moment it is taken, under listenersMutex_; it stays what it is while the
\* callbacks run; and when the notification ends it has invoked exactly the
\* listeners of the snapshot, each once: not a listener registered since (by
\* a callback or by the other thread), and also a listener unsubscribed since.
C30_InvokedAreTheSnapshot ==
    [][\A t \in Threads :
          /\ TakesSnapshot(t) =>
                /\ listenersMutex_ = t
                /\ stack'[t][Depth(t)].copy = listeners_[Top(t).nscope]
          /\ \A d \in 1 .. Depth(t) :
                (stack[t][d].pc = "ncall" /\ Len(stack'[t]) >= d) =>
                    stack'[t][d].copy = stack[t][d].copy
          /\ EndsNotification(t) =>
                InvokedBy(t, Depth(t), Top(t).j) = ListenerIds(Top(t).copy)]_vars

\* listener 0's callback has registered listener 1, which was not invoked
C30_Witness ==
    /\ Leaving(1, {"set"}) /\ ListenerIds(Top(1).copy) = << 0 >>
    /\ Top(1).copy[1].callback.kind = "add"
    /\ InvokedBy(1, 1, 1) = << 0 >>
    /\ ListenerIds(listeners_[Memory]) = << 0, 1 >>

\* thread 2 has registered listener 1 while listener 0's callback was
\* running: it was not invoked
C30_WitnessOtherThread ==
    /\ Leaving(1, {"set"}) /\ ListenerIds(Top(1).copy) = << 0 >>
    /\ Top(1).copy[1].callback.kind = "get"
    /\ InvokedBy(1, 1, 1) = << 0 >>
    /\ ListenerIds(listeners_[Memory]) = << 0, 1 >>

\* listener 0's callback has unsubscribed listener 1, which was invoked after
C30_WitnessRemoved ==
    /\ Leaving(1, {"set"}) /\ ListenerIds(Top(1).copy) = << 0, 1 >>
    /\ Top(1).copy[1].callback = [kind |-> "unsub", target |-> 1]
    /\ InvokedBy(1, 1, 1) = << 0, 1 >> /\ log[1][2].late
    /\ ListenerIds(listeners_[Memory]) = << 0 >>

\* C31: every batch of the workload leaves the two keys alike (both absent or
\* both with the batch's value), so a state of the Memory map in which they
\* differ is a partly applied batch: it exists only while a thread holds
\* memoryMutex_, and no getBatch returns it; nor does a get or a getBatch
\* return a value whose write was not finished.
C31_MemoryBatchAtomic ==
    /\ memoryMutex_ = 0 => Find(memoryStore_, "a") = Find(memoryStore_, "b")
    /\ \A t \in Threads :
          /\ Leaving(t, {"getBatch"}) =>
                /\ Top(t).err = ""
                /\ Top(t).opts[1] = Top(t).opts[2]
                /\ Top(t).opts[1] \in {nullopt} \cup {Some(v) : v \in Values}
          /\ Leaving(t, {"get"}) =>
                Top(t).opts[1] \in {nullopt} \cup {Some(v) : v \in Values}

\* thread 2's getBatch waits while thread 1's setBatch has written one key
C31_Witness ==
    /\ Depth(1) = 1 /\ Top(1).op = "setBatch" /\ Top(1).pc = "body" /\ Top(1).i = 2
    /\ Find(memoryStore_, "a") = Some("2") /\ Find(memoryStore_, "b") = Some("1")
    /\ Depth(2) = 1 /\ Top(2).op = "getBatch" /\ Top(2).pc = "lock"

\* thread 2's getBatch has read one key while thread 1's removeBatch waits
C31_WitnessRead ==
    /\ Depth(2) = 1 /\ Top(2).op = "getBatch" /\ Top(2).pc = "body" /\ Top(2).i = 2
    /\ Top(2).opts = << Some("1") >>
    /\ Depth(1) = 1 /\ Top(1).op = "removeBatch" /\ Top(1).pc = "lock"

\* the two threads' batches meet: one has written one key, the other waits
C31_WitnessWriters ==
    /\ Depth(2) = 1 /\ Top(2).op = "setBatch" /\ Top(2).pc = "commit" /\ Top(2).i = 2
    /\ Depth(1) = 1 /\ Top(1).op = "setBatch" /\ Top(1).pc = "lock"

\* a getBatch that ran between two batches of the other thread
C31_WitnessBetween ==
    /\ Leaving(2, {"getBatch"}) /\ Top(2).opts = << Some("2"), Some("2") >>
    /\ Top(2).pre.memory = [k \in Keys |-> "1"]
    /\ Depth(1) = 1 /\ Top(1).op = "setBatch" /\ Top(1).pc = "ret"

\* C32: when a thread delivers the notification of its mutation of a key to
\* a listener that the other thread's call in progress has already notified
\* of another value for the key, the later notification is that of the
\* mutation applied later: it carries the value the Memory map holds.
C32_NotifiedInAppliedOrder ==
    [][\A t \in Threads : \A u \in Threads \ {t} :
          LET Delivers == Len(log'[t]) = Len(log[t]) + 1
              Delivered == log'[t][Len(log'[t])]
          IN  (/\ Delivers
               /\ \E n \in 1 .. Len(log[u]) :
                     /\ log[u][n].lid = Delivered.lid
                     /\ log[u][n].key = Delivered.key
                     /\ log[u][n].value # Delivered.value) =>
                  Find(memoryStore_, Delivered.key) = Delivered.value]_vars

----------------------------------------------------------------------------
\* C33: when a callback invoked with a notification of a call mutates the
\* scope it is notified about, the nested mutation is in the store and its
\* notification has reached every listener of the scope, once each, before
\* the call invokes the listener that follows the calling one (which so sees
\* the nested event first and the outer one after it); and the call, when it
\* returns, has invoked every listener of its own snapshot exactly once.
\* OuterAt are the positions of the log at which the host's call invoked a
\* callback; the invocations caused by the callback invoked at p end before
\* the next of these positions, or with the return of the call.
C33_NestedBeforeFollowing ==
    \A t \in Threads :
        LET OuterAt == {n \in 1 .. Len(log[t]) : log[t][n].depth = 1}
            NestedEnd(p) ==
                IF \E q \in OuterAt : q > p
                THEN (CHOOSE q \in OuterAt : q > p /\ \A r \in OuterAt : r > p => q <= r) - 1
                ELSE Len(log[t])
            PastCallback(p) ==
                \/ \E q \in OuterAt : q > p
                \/ Depth(t) = 1 /\ Top(t).pc = "ret"
            CallbackOf(copy, lid) ==
                LET n == CHOOSE n \in 1 .. Len(copy) : copy[n].id = lid IN copy[n].callback
            NestedValue(cb, scope, key) ==
                LET c == CallbackCall(cb, scope, key)
                IN  IF c.op = "set" THEN Some(c.values[1]) ELSE nullopt
        IN  /\ (Depth(t) >= 2 /\ Top(t).op \in {"set", "remove"}
                    /\ Top(t).at > 0 /\ Top(t).pc \in {"nlock", "ncopy", "ncall", "ret"}) =>
                   /\ Find(Store(Top(t).dom), Top(t).keys[1]) = Top(t).notes[1].value
                   /\ \A q \in OuterAt : q <= Top(t).at
            /\ Depth(t) >= 1 =>
                   \A p \in OuterAt :
                      LET outer == stack[t][1]
                          cb == CallbackOf(outer.copy, log[t][p].lid)
                      IN  (cb.kind \in {"set", "remove"} /\ PastCallback(p)) =>
                             DeliveredOnce(SubSeq(log[t], p + 1, NestedEnd(p)),
                                           listeners_[outer.nscope], log[t][p].key,
                                           NestedValue(cb, outer.nscope, log[t][p].key))
            /\ (Depth(t) = 1 /\ Top(t).op \in {"set", "remove"} /\ Top(t).pc = "ret"
                    /\ Top(t).err = "") =>
                   DeliveredOnce(Deliveries(t, 1), Top(t).copy, Top(t).keys[1],
                                 Top(t).notes[1].value)

\* set is about to return: its first listener set the key during the
\* notification, and the listener after it was invoked with the nested value
\* and then with the value of the call.
C33_Witness ==
    /\ Returning(1, "set")
    /\ Len(log[1]) >= 4
    /\ log[1][1].depth = 1 /\ log[1][2].depth = 2 /\ log[1][3].depth = 2
    /\ log[1][4].depth = 1
    /\ log[1][3].lid = log[1][4].lid /\ log[1][1].lid # log[1][4].lid
    /\ log[1][3].value = Some("2") /\ log[1][4].value = Some("1")

\* remove is about to return after a listener's callback removed the key again
C33_WitnessRemove ==
    /\ Returning(1, "remove")
    /\ \E n \in 1 .. Len(log[1]) : log[1][n].depth = 2 /\ log[1][n].value = nullopt

\* the callback of the last listener of the snapshot mutated: nobody follows
C33_WitnessLast ==
    /\ Returning(1, "set")
    /\ Len(log[1]) >= 3
    /\ log[1][1].depth = 1 /\ log[1][2].depth = 1 /\ log[1][3].depth = 2

----------------------------------------------------------------------------
C34_WitnessMemory ==
    /\ Depth(1) = 1 /\ Top(1).pc = "lock"
    /\ memoryMutex_ = 2

\* thread 1 waits for the registry mutex to copy the listeners, while thread 2
\* holds it in addOnChange
C34_WitnessRegistry ==
    /\ Depth(1) = 1 /\ Top(1).pc = "nlock"
    /\ listenersMutex_ = 2
    /\ Depth(2) = 1 /\ Top(2).op = "addOnChange"

\* the remove called by a callback on thread 2 waits for the Memory mutex,
\* which thread 1 holds
C34_WitnessNested ==
    /\ Depth(2) = 2 /\ Top(2).op = "remove" /\ Top(2).pc = "lock"
    /\ memoryMutex_ = 1

====
